---- MODULE Spec2Model ----
(***************************************************************************)
(* Model of the query/mutation cache protocol of the starter template:     *)
(* the optimistic update and delete mutations (use-example-mutation), the  *)
(* query key factory and query hooks (use-example-query), the retry policy *)
(* of the query client (query-client) and the error classification         *)
(* (error-handler).                                                        *)
(***************************************************************************)
EXTENDS Integers, Sequences, FiniteSets, TLC

VARIABLES
    server,   \* the backend: id -> the stored Example, or None
    cache,    \* the query cache: query key -> [data, fetching, invalidated]
    mut,      \* the mutations: slot -> [pc, kind, id, data, ctx]
    toasts,   \* the toasts shown so far, in order
    now,      \* the last reading of the wall clock (new Date())
    req,      \* one logical request run by the client's retryer
    call,     \* the last call of a pure function
    q,        \* one query of the cache with its observers, timers and network calls
    theme,    \* the ThemeProvider component and the storage behind it
    repos,    \* one mock repository instance and the outcome of its last operation
    auth      \* the auth store and the storage it persists to

vars == <<server, cache, mut, toasts, now, req, call, q, theme, repos, auth>>

-----------------------------------------------------------------------------
(* Bounds of the model *)

MaxTime == 1
MaxMutations == 1

Ids == {"1", "2"}

-----------------------------------------------------------------------------
(* Optional values: undefined is the empty tuple *)

None == <<>>
Some(x) == <<x>>
IsSome(o) == Len(o) = 1
Get(o) == o[1]

(* Object spread: {...a, ...b} *)
Spread(a, b) ==
    [k \in (DOMAIN a) \cup (DOMAIN b) |-> IF k \in DOMAIN b THEN b[k] ELSE a[k]]

(* The patches an update is called with (UpdateExampleInput: every field optional) *)
UpdateExampleInput == {[title |-> "B"], [title |-> "B", status |-> "archived"]}

-----------------------------------------------------------------------------
(* Errors raised by a request *)

(* new ApiError(`Request failed with status ${status}`, status, data) *)
ApiError(status, data) ==
    [kind |-> "ApiError", name |-> "ApiError", status |-> status, data |-> data,
     message |-> "Request failed with status " \o ToString(status)]

(* The TypeError fetch rejects with when no response is obtained *)
NetworkError == 
    [kind |-> "TypeError", name |-> "TypeError", status |-> 0, data |-> None,
     message |-> "Failed to fetch"]

(* The same failure as React Native's fetch reports it *)
NetworkRequestFailed ==
    [kind |-> "TypeError", name |-> "TypeError", status |-> 0, data |-> None,
     message |-> "Network request failed"]

(* A network failure: fetch rejects with a TypeError whose message depends *)
(* on the platform the app is built for                                    *)
NetworkFailures == {NetworkError, NetworkRequestFailed}

(* A thrown string, and a thrown value that is neither an Error nor a string *)
StringError(msg) ==
    [kind |-> "string", name |-> "", status |-> 0, data |-> None, message |-> msg]

OtherThrown ==
    [kind |-> "other", name |-> "", status |-> 0, data |-> None, message |-> ""]

(* The DOMException fetch rejects with when its signal is aborted *)
AbortError ==
    [kind |-> "DOMException", name |-> "AbortError", status |-> 0, data |-> None,
     message |-> "Aborted"]

(* Any other Error, with its message (possibly empty) *)
GenericError(msg) ==
    [kind |-> "Error", name |-> "Error", status |-> 0, data |-> None,
     message |-> msg]

-----------------------------------------------------------------------------
(* Query keys (exampleKeys).  A key is the sequence of its parts; the      *)
(* params of a list key are written as the client hashes them.             *)

NoParams == "undefined"
ActiveParams == "status=active"
FetchExamplesParams == {NoParams, ActiveParams}

all == <<"examples">>
lists == all \o <<"list">>
list(params) == lists \o <<params>>
details == all \o <<"detail">>
detail(id) == details \o <<id>>

QueryKeys == {detail(id) : id \in Ids} \cup {list(p) : p \in FetchExamplesParams}

(* A filter { queryKey } matches every key it is a prefix of *)
Matches(filterKey, key) ==
    /\ Len(filterKey) <= Len(key)
    /\ \A i \in 1..Len(filterKey) : filterKey[i] = key[i]

-----------------------------------------------------------------------------
(* The query client's command surface, as the hooks use it *)

NoQuery == [data |-> None, fetching |-> FALSE, invalidated |-> FALSE]

(* A query is in the cache once it holds data or a fetch is running *)
Exists(entry) == IsSome(entry.data) \/ entry.fetching

getQueryData(c, key) == c[key].data

(* A manual write: the data is fresh again, a running fetch keeps running *)
setQueryData(c, key, value) ==
    [c EXCEPT ![key] = [data |-> Some(value), fetching |-> c[key].fetching,
                        invalidated |-> FALSE]]

(* A cancelled fetch is dropped: its response will not be written *)
cancelQueries(c, filterKey) ==
    [k \in DOMAIN c |->
        IF Matches(filterKey, k) THEN [c[k] EXCEPT !.fetching = FALSE] ELSE c[k]]

removeQueries(c, filterKey) ==
    [k \in DOMAIN c |-> IF Matches(filterKey, k) THEN NoQuery ELSE c[k]]

(* Marks the matching queries stale and refetches those with an observer *)
(* (active: the matching keys that have a mounted observer)              *)
invalidateQueries(c, filterKey, active) ==
    [k \in DOMAIN c |->
        IF Matches(filterKey, k) /\ Exists(c[k])
        THEN [c[k] EXCEPT !.invalidated = TRUE,
                          !.fetching = (c[k].fetching \/ k \in active)]
        ELSE c[k]]

-----------------------------------------------------------------------------
(* The backend behind fetchExampleById / fetchExamples *)

Example(id, title, status, updatedAt) ==
    [id |-> id, title |-> title, status |-> status, updatedAt |-> updatedAt]

(* The order in which the backend lists the examples *)
IdOrder == <<"1", "2">>

(* GET /examples/:id *)
fetchExampleById(id) == server[id]

(* GET /examples?status=...: the stored examples that match, with their count *)
fetchExamples(params) ==
    LET Keep(id) == /\ IsSome(server[id])
                    /\ (params = ActiveParams => Get(server[id]).status = "active")
        ids == SelectSeq(IdOrder, Keep)
    IN  [data |-> [i \in 1..Len(ids) |-> Get(server[ids[i]])], total |-> Len(ids)]

(* PATCH /examples/:id *)
updateExample(id, input) ==
    [server EXCEPT ![id] = Some(Spread(Spread(Get(server[id]), input), [updatedAt |-> now]))]

(* DELETE /examples/:id *)
deleteExample(id) == [server EXCEPT ![id] = None]

-----------------------------------------------------------------------------
(* Toasts *)

Toast(severity, message) == [severity |-> severity, message |-> message]

(* error.message || fallback *)
MessageOr(error, fallback) == IF error.message # "" THEN error.message ELSE fallback

-----------------------------------------------------------------------------
(* Mutations *)

Muts == 1..MaxMutations

NoContext == [previousExample |-> None, previousList |-> None]
IdleMutation == [pc |-> "idle", kind |-> "none", id |-> "1", data |-> <<>>,
                 ctx |-> NoContext, error |-> None]

(* A mutation's callbacks run back to back, one promise continuation after *)
(* the other; nothing else runs between onMutate and the write request,    *)
(* nor between onSuccess/onError and onSettled.                            *)
Quiet == \A m \in DOMAIN mut : mut[m].pc \in {"idle", "pending", "settled"}

(* The errors a write request finally fails with *)
WriteErrors == {ApiError(500, None)}

-----------------------------------------------------------------------------
(* Error payloads (the parsed body an ApiError carries).  A member is a   *)
(* value with its typeof: absent, a string, or an object with or without  *)
(* a string message.                                                      *)

Absent == [t |-> "absent", s |-> ""]
Str(s) == [t |-> "string", s |-> s]
ObjectWithMessage(s) == [t |-> "object", s |-> s]
ObjectWithoutMessage == [t |-> "object-no-message", s |-> ""]

Payload(message, error, errors) ==
    [message |-> message, error |-> error, errors |-> errors]

-----------------------------------------------------------------------------
(* error-handler *)

HTTP_ERROR_MESSAGES ==
    (400 :> "Invalid request. Please check your input.") @@
    (401 :> "Please sign in to continue.") @@
    (403 :> "You don't have permission to perform this action.") @@
    (404 :> "The requested resource was not found.") @@
    (408 :> "Request timed out. Please try again.") @@
    (409 :> "A conflict occurred. Please refresh and try again.") @@
    (422 :> "Validation failed. Please check your input.") @@
    (429 :> "Too many requests. Please wait a moment.") @@
    (500 :> "Server error. Please try again later.") @@
    (502 :> "Service temporarily unavailable. Please try again.") @@
    (503 :> "Service unavailable. Please try again later.") @@
    (504 :> "Request timed out. Please try again.")

DEFAULT_ERROR_MESSAGE == "Something went wrong. Please try again."
NETWORK_ERROR_MESSAGE == "Network error. Please check your connection."

(* a || b on optional strings: the empty string is falsy like undefined *)
OrElse(a, b) == IF IsSome(a) /\ Get(a) # "" THEN a ELSE b

(* data: None for a null or non-object body, Some(payload) for an object *)
extractErrorMessage(data) ==
    IF ~IsSome(data) THEN None
    ELSE LET errorData == Get(data) IN
         IF errorData.message.t = "string" THEN Some(errorData.message.s)
         ELSE IF errorData.error.t = "string" THEN Some(errorData.error.s)
         ELSE IF errorData.error.t = "object" THEN Some(errorData.error.s)
         ELSE IF Len(errorData.errors) > 0 /\ errorData.errors[1].t \in {"string", "object"}
              THEN Some(errorData.errors[1].s)
         ELSE None

(* The messages of the model that contain "fetch" *)
IncludesFetch(message) == message \in {"Failed to fetch", "fetch failed"}

ParsedError(message, isNetworkError, isAuthError, status) ==
    [message |-> message, isNetworkError |-> isNetworkError,
     isAuthError |-> isAuthError, status |-> status]

parseError(error) ==
    IF error.kind = "ApiError" THEN
        LET apiMessage == extractErrorMessage(error.data)
            httpMessage == IF error.status \in DOMAIN HTTP_ERROR_MESSAGES
                           THEN Some(HTTP_ERROR_MESSAGES[error.status]) ELSE None
        IN  ParsedError(Get(OrElse(apiMessage, OrElse(httpMessage, Some(DEFAULT_ERROR_MESSAGE)))),
                        FALSE, error.status = 401 \/ error.status = 403,
                        Some(error.status))
    ELSE IF error.kind = "TypeError" /\ IncludesFetch(error.message) THEN
        ParsedError(NETWORK_ERROR_MESSAGE, TRUE, FALSE, None)
    ELSE IF error.kind = "DOMException" /\ error.name = "AbortError" THEN
        ParsedError("Request was cancelled.", FALSE, FALSE, None)
    ELSE IF error.kind \in {"Error", "TypeError", "DOMException"} THEN
        ParsedError(Get(OrElse(Some(error.message), Some(DEFAULT_ERROR_MESSAGE))),
                    FALSE, FALSE, None)
    ELSE IF error.kind = "string" THEN
        ParsedError(error.message, FALSE, FALSE, None)
    ELSE ParsedError(DEFAULT_ERROR_MESSAGE, FALSE, FALSE, None)

(* handleApiError(error, customMessage): the toast it shows; customMessage *)
(* is None when the caller passes none                                     *)
handleApiErrorCustom(error, customMessage) ==
    Toast("error", Get(OrElse(customMessage, Some(parseError(error).message))))

(* handleApiError(error): the toast it shows *)
handleApiError(error) == Toast("error", parseError(error).message)

(* handleNetworkError(error): the toast it shows *)
handleNetworkError(error) ==
    LET parsed == parseError(error)
    IN  IF parsed.isNetworkError THEN Toast("error", NETWORK_ERROR_MESSAGE)
        ELSE Toast("error", parsed.message)

-----------------------------------------------------------------------------
(* query-client: the retry policy *)

DEFAULT_RETRY_COUNT == 3
MUTATION_RETRY_COUNT == 1
RETRYABLE_4XX_CODES == {408, 429}

(* The exhaustion test off by one *)
shouldRetry_OffByOne(failureCount, error, maxRetries) ==
    IF failureCount > maxRetries THEN FALSE
    ELSE IF error.kind # "ApiError" THEN TRUE
    ELSE IF error.status >= 500 THEN TRUE
    ELSE IF error.status \in RETRYABLE_4XX_CODES THEN TRUE
    ELSE IF error.status >= 400 /\ error.status < 500 THEN FALSE
    ELSE TRUE

(* Without the retryable 4xx codes *)
shouldRetry_No4xx(failureCount, error, maxRetries) ==
    IF failureCount >= maxRetries THEN FALSE
    ELSE IF error.kind # "ApiError" THEN TRUE
    ELSE IF error.status >= 500 THEN TRUE
    ELSE IF error.status >= 400 /\ error.status < 500 THEN FALSE
    ELSE TRUE

shouldRetry(failureCount, error, maxRetries) ==
    IF failureCount >= maxRetries THEN FALSE
    ELSE IF error.kind # "ApiError" THEN TRUE
    ELSE IF error.status >= 500 THEN TRUE
    ELSE IF error.status \in RETRYABLE_4XX_CODES THEN TRUE
    ELSE IF error.status >= 400 /\ error.status < 500 THEN FALSE
    ELSE TRUE

RECURSIVE Pow2(_)
Pow2(n) == IF n <= 0 THEN 1 ELSE 2 * Pow2(n - 1)

Min(a, b) == IF a <= b THEN a ELSE b

baseDelay == 1000
maxDelay == 30000

(* Without the cap *)
calculateRetryDelay_NoCap(attemptIndex) == baseDelay * Pow2(attemptIndex)

calculateRetryDelay(attemptIndex) == Min(baseDelay * Pow2(attemptIndex), maxDelay)

(* queryClientConfig.defaultOptions *)
QueryRetry(failureCount, error) == shouldRetry(failureCount, error, DEFAULT_RETRY_COUNT)
QueryRetryDelay(attemptIndex) == calculateRetryDelay(attemptIndex)
MutationRetry(failureCount, error) == shouldRetry(failureCount, error, MUTATION_RETRY_COUNT)
MutationRetryDelay(attemptIndex) == calculateRetryDelay(attemptIndex)

-----------------------------------------------------------------------------
(* Queries (useExampleQuery, useExamplesQuery) *)

(* The request a query key stands for *)
queryFn(key) ==
    IF key[2] = "detail" THEN fetchExampleById(key[3]) ELSE Some(fetchExamples(key[3]))

(* An observer mounts on a key without fresh data, or refetch() is called: *)
(* a fetch starts unless one is already running for the key                *)
StartFetch(key) ==
    /\ Quiet
    /\ ~cache[key].fetching
    /\ cache' = [cache EXCEPT ![key].fetching = TRUE]
    /\ UNCHANGED <<server, mut, toasts, now, req, call, q, theme, repos, auth>>

(* The response of a running fetch arrives and is written to the cache *)
FetchSuccess(key) ==
    /\ Quiet
    /\ cache[key].fetching
    /\ IsSome(queryFn(key))
    /\ cache' = [cache EXCEPT ![key] = [data |-> queryFn(key), fetching |-> FALSE,
                                        invalidated |-> FALSE]]
    /\ UNCHANGED <<server, mut, toasts, now, req, call, q, theme, repos, auth>>

(* A running fetch finally fails: the cached data stays *)
FetchError(key) ==
    /\ Quiet
    /\ cache[key].fetching
    /\ cache' = [cache EXCEPT ![key].fetching = FALSE]
    /\ UNCHANGED <<server, mut, toasts, now, req, call, q, theme, repos, auth>>

-----------------------------------------------------------------------------
(* useUpdateExampleMutation *)

(* { ...previousExample, ...data, updatedAt: new Date().toISOString() } *)
OptimisticExample(previous, data, t) ==
    Spread(Spread(previous, data), [updatedAt |-> t])

(* The map without its id test: every item is patched *)
OptimisticList_AllItems(previousList, id, data, t) ==
    Spread(previousList,
           [data |-> [i \in 1..Len(previousList.data) |->
                        Spread(Spread(previousList.data[i], data), [updatedAt |-> t])]])

(* { ...previousList, data: previousList.data.map(...) } *)
OptimisticList(previousList, id, data, t) ==
    Spread(previousList,
           [data |-> [i \in 1..Len(previousList.data) |->
                        IF previousList.data[i].id = id
                        THEN OptimisticExample(previousList.data[i], data, t)
                        ELSE previousList.data[i]]])

(* The cancellations every onMutate begins with *)
CancelOutgoing(c, id) == cancelQueries(cancelQueries(c, detail(id)), lists)

UpdateOptimistic(c, id, data, t) ==
    LET previousExample == getQueryData(c, detail(id))
        previousList == getQueryData(c, list(NoParams))
        c1 == IF IsSome(previousExample)
              THEN setQueryData(c, detail(id),
                                OptimisticExample(Get(previousExample), data, t))
              ELSE c
    IN  IF IsSome(previousList)
        THEN setQueryData(c1, list(NoParams),
                          OptimisticList(Get(previousList), id, data, t))
        ELSE c1

(* The snapshot onMutate returns *)
Snapshot(c, id) ==
    [previousExample |-> getQueryData(c, detail(id)),
     previousList |-> getQueryData(c, list(NoParams))]

UpdateOnMutate(m, id, data, t) ==
    /\ Quiet /\ t >= now /\ now' = t
    /\ mut[m].pc = "idle"
    /\ \A k \in DOMAIN mut : k < m => mut[k].pc # "idle"
    /\ LET c == CancelOutgoing(cache, id)
       IN  /\ cache' = UpdateOptimistic(c, id, data, t)
           /\ mut' = [mut EXCEPT ![m] = [pc |-> "mutated", kind |-> "update",
                                         id |-> id, data |-> data,
                                         ctx |-> Snapshot(c, id), error |-> None]]
    /\ UNCHANGED <<server, toasts, req, call, q, theme, repos, auth>>

(* mutationFn: the write request is issued *)
MutationFn(m) ==
    /\ mut[m].pc = "mutated"
    /\ mut' = [mut EXCEPT ![m].pc = "pending"]
    /\ UNCHANGED <<server, cache, toasts, now, req, call, q, theme, repos, auth>>

UpdateOnSuccess(m) ==
    /\ Quiet
    /\ mut[m].pc = "pending" /\ mut[m].kind = "update"
    /\ IsSome(server[mut[m].id])
    /\ server' = updateExample(mut[m].id, mut[m].data)
    /\ toasts' = Append(toasts, Toast("success", "Example updated successfully"))
    /\ mut' = [mut EXCEPT ![m].pc = "succeeded"]
    /\ UNCHANGED <<cache, now, req, call, q, theme, repos, auth>>

(* An onError that forgets the list *)
Rollback_DetailOnly(c, id, context) ==
    IF IsSome(context.previousExample)
    THEN setQueryData(c, detail(id), Get(context.previousExample))
    ELSE c

(* onError: restore what the snapshot holds *)
Rollback(c, id, context) ==
    LET c1 == IF IsSome(context.previousExample)
              THEN setQueryData(c, detail(id), Get(context.previousExample))
              ELSE c
    IN  IF IsSome(context.previousList)
        THEN setQueryData(c1, list(NoParams), Get(context.previousList))
        ELSE c1

UpdateOnError(m, error) ==
    /\ Quiet
    /\ mut[m].pc = "pending" /\ mut[m].kind = "update"
    /\ cache' = Rollback(cache, mut[m].id, mut[m].ctx)
    /\ toasts' = Append(toasts, Toast("error", MessageOr(error, "Failed to update example")))
    /\ mut' = [mut EXCEPT ![m].pc = "failed", ![m].error = Some(error)]
    /\ UNCHANGED <<server, now, req, call, q, theme, repos, auth>>

(* onSettled of the update: invalidate the detail key and every list key *)
UpdateSettle(c, id, active) ==
    invalidateQueries(invalidateQueries(c, detail(id), active), lists, active)

SettledMutation == [IdleMutation EXCEPT !.pc = "settled"]

UpdateOnSettled(m, active) ==
    /\ mut[m].pc \in {"succeeded", "failed"} /\ mut[m].kind = "update"
    /\ cache' = UpdateSettle(cache, mut[m].id, active)
    /\ mut' = [mut EXCEPT ![m] = SettledMutation]
    /\ UNCHANGED <<server, toasts, now, req, call, q, theme, repos, auth>>

-----------------------------------------------------------------------------
(* useDeleteExampleMutation *)

RemoveItem(items, id) ==
    LET Other(item) == item.id # id IN SelectSeq(items, Other)

(* The filter without the total *)
ListWithout_KeepTotal(previousList, id) ==
    Spread(previousList, [data |-> RemoveItem(previousList.data, id)])

(* { ...previousList, data: data.filter(...), total: previousList.total - 1 } *)
ListWithout(previousList, id) ==
    Spread(previousList, [data |-> RemoveItem(previousList.data, id),
                          total |-> previousList.total - 1])

DeleteOptimistic(c, id) ==
    LET previousList == getQueryData(c, list(NoParams))
        c1 == IF IsSome(previousList)
              THEN setQueryData(c, list(NoParams), ListWithout(Get(previousList), id))
              ELSE c
    IN  removeQueries(c1, detail(id))

DeleteOnMutate(m, id) ==
    /\ Quiet
    /\ mut[m].pc = "idle"
    /\ \A k \in DOMAIN mut : k < m => mut[k].pc # "idle"
    /\ LET c == CancelOutgoing(cache, id)
       IN  /\ cache' = DeleteOptimistic(c, id)
           /\ mut' = [mut EXCEPT ![m] = [pc |-> "mutated", kind |-> "delete",
                                         id |-> id, data |-> <<>>,
                                         ctx |-> Snapshot(c, id), error |-> None]]
    /\ UNCHANGED <<server, toasts, now, req, call, q, theme, repos, auth>>

DeleteOnSuccess(m) ==
    /\ Quiet
    /\ mut[m].pc = "pending" /\ mut[m].kind = "delete"
    /\ IsSome(server[mut[m].id])
    /\ server' = deleteExample(mut[m].id)
    /\ toasts' = Append(toasts, Toast("success", "Example deleted successfully"))
    /\ mut' = [mut EXCEPT ![m].pc = "succeeded"]
    /\ UNCHANGED <<cache, now, req, call, q, theme, repos, auth>>

(* onError of the delete: restore what the snapshot holds *)
DeleteRollback(c, id, context) ==
    LET c1 == IF IsSome(context.previousExample)
              THEN setQueryData(c, detail(id), Get(context.previousExample))
              ELSE c
    IN  IF IsSome(context.previousList)
        THEN setQueryData(c1, list(NoParams), Get(context.previousList))
        ELSE c1

DeleteOnError(m, error) ==
    /\ Quiet
    /\ mut[m].pc = "pending" /\ mut[m].kind = "delete"
    /\ cache' = DeleteRollback(cache, mut[m].id, mut[m].ctx)
    /\ toasts' = Append(toasts, Toast("error", MessageOr(error, "Failed to delete example")))
    /\ mut' = [mut EXCEPT ![m].pc = "failed", ![m].error = Some(error)]
    /\ UNCHANGED <<server, now, req, call, q, theme, repos, auth>>

(* onSettled of the delete: invalidate the list keys *)
DeleteSettle(c, id, active) == invalidateQueries(c, lists, active)

DeleteOnSettled(m, active) ==
    /\ mut[m].pc \in {"succeeded", "failed"} /\ mut[m].kind = "delete"
    /\ cache' = DeleteSettle(cache, mut[m].id, active)
    /\ mut' = [mut EXCEPT ![m] = SettledMutation]
    /\ UNCHANGED <<server, toasts, now, req, call, q, theme, repos, auth>>

-----------------------------------------------------------------------------
(* One logical request run by the client's retryer, with the options of   *)
(* the hook that issued it                                               *)

RequestKinds == {"query", "create", "update", "delete", "mutation"}

IdleRequest == [kind |-> "none", pc |-> "idle", failureCount |-> 0, attempts |-> 0,
                error |-> None, delay |-> 0]

(* The errors an attempt can fail with *)
RequestErrors ==
    {ApiError(status, None) : status \in {400, 401, 404, 408, 418, 429, 500, 503}}
        \cup {ApiError(422, Some(Payload(Str("Title is required"), Absent, <<>>)))}
        \cup {NetworkError, AbortError, GenericError("boom"), GenericError("")}

(* options.retry and options.retryDelay: the defaults of the query client *)
Retry(kind, failureCount, error) ==
    IF kind = "query" THEN QueryRetry(failureCount, error)
    ELSE MutationRetry(failureCount, error)

RetryDelay(kind, failureCount) ==
    IF kind = "query" THEN QueryRetryDelay(failureCount)
    ELSE MutationRetryDelay(failureCount)

(* What the hook's onSuccess shows *)
SuccessToasts(kind) ==
    IF kind = "create" THEN <<Toast("success", "Example created successfully")>>
    ELSE IF kind = "update" THEN <<Toast("success", "Example updated successfully")>>
    ELSE IF kind = "delete" THEN <<Toast("success", "Example deleted successfully")>>
    ELSE <<>>

(* What is shown when the request finally fails: the hook's own onError,  *)
(* else the default onError of mutations; queries have no error handler   *)
ErrorToasts(kind, error) ==
    IF kind = "create" THEN <<Toast("error", MessageOr(error, "Failed to create example"))>>
    ELSE IF kind = "update" THEN <<Toast("error", MessageOr(error, "Failed to update example"))>>
    ELSE IF kind = "delete" THEN <<Toast("error", MessageOr(error, "Failed to delete example"))>>
    ELSE IF kind = "mutation" THEN <<handleApiError(error)>>
    ELSE <<>>

RequestStart(kind) ==
    /\ req.pc = "idle"
    /\ req' = [IdleRequest EXCEPT !.kind = kind, !.pc = "running", !.attempts = 1]
    /\ UNCHANGED <<server, cache, mut, toasts, now, call, q, theme, repos, auth>>

AttemptSucceeds ==
    /\ req.pc = "running"
    /\ req' = [req EXCEPT !.pc = "success"]
    /\ toasts' = toasts \o SuccessToasts(req.kind)
    /\ UNCHANGED <<server, cache, mut, now, call, q, theme, repos, auth>>

(* The attempt rejects: retry(failureCount, error) decides whether the    *)
(* retryer counts the failure and sleeps, or rejects the request          *)
AttemptFails(error) ==
    /\ req.pc = "running"
    /\ IF Retry(req.kind, req.failureCount, error)
       THEN /\ req' = [req EXCEPT !.pc = "waiting", !.error = Some(error),
                                  !.failureCount = req.failureCount + 1,
                                  !.delay = RetryDelay(req.kind, req.failureCount)]
            /\ toasts' = toasts
       ELSE /\ req' = [req EXCEPT !.pc = "error", !.error = Some(error)]
            /\ toasts' = toasts \o ErrorToasts(req.kind, error)
    /\ UNCHANGED <<server, cache, mut, now, call, q, theme, repos, auth>>

(* The delay has passed: the next attempt runs *)
RetryFires ==
    /\ req.pc = "waiting"
    /\ req' = [req EXCEPT !.pc = "running", !.attempts = req.attempts + 1]
    /\ UNCHANGED <<server, cache, mut, toasts, now, call, q, theme, repos, auth>>

(* cancelQueries on a query that is running or sleeping *)
RequestCancel ==
    /\ req.kind = "query"
    /\ req.pc \in {"running", "waiting"}
    /\ req' = [req EXCEPT !.pc = "cancelled"]
    /\ UNCHANGED <<server, cache, mut, toasts, now, call, q, theme, repos, auth>>

(* The toasts have gone and a new logical request may start *)
RequestReset ==
    /\ req.pc \in {"success", "error", "cancelled"}
    /\ req' = IdleRequest
    /\ toasts' = <<>>
    /\ UNCHANGED <<server, cache, mut, now, call, q, theme, repos, auth>>

-----------------------------------------------------------------------------
(* Calls of the pure functions of the retry policy *)

MaxFailureCount == 4
MaxRetriesArg == 4
MaxAttemptIndex == 12

StatusCodes == 100..599

PolicyErrors ==
    {ApiError(status, None) : status \in StatusCodes}
        \cup {NetworkError, AbortError, GenericError("boom")}

NoCall == [fn |-> "none", failureCount |-> 0, error |-> NetworkError, maxRetries |-> 0,
           attemptIndex |-> 0, done |-> FALSE, retry |-> FALSE,
           queryDelay |-> 0, mutationDelay |-> 0]

PolicyCalls ==
    {[NoCall EXCEPT !.fn = "shouldRetry", !.failureCount = f, !.error = e, !.maxRetries = r] :
        f \in 0..MaxFailureCount, e \in PolicyErrors, r \in 0..MaxRetriesArg}
    \cup {[NoCall EXCEPT !.fn = "calculateRetryDelay", !.attemptIndex = i] :
            i \in 0..MaxAttemptIndex}

ApplyShouldRetry ==
    /\ call.fn = "shouldRetry" /\ ~call.done
    /\ call' = [call EXCEPT !.done = TRUE,
                            !.retry = shouldRetry(call.failureCount, call.error, call.maxRetries)]
    /\ UNCHANGED <<server, cache, mut, toasts, now, req, q, theme, repos, auth>>

ApplyRetryDelay ==
    /\ call.fn = "calculateRetryDelay" /\ ~call.done
    /\ call' = [call EXCEPT !.done = TRUE,
                            !.queryDelay = QueryRetryDelay(call.attemptIndex),
                            !.mutationDelay = MutationRetryDelay(call.attemptIndex)]
    /\ UNCHANGED <<server, cache, mut, toasts, now, req, q, theme, repos, auth>>

-----------------------------------------------------------------------------
(* One query (the detail query of example "1") under the default options   *)
(* of the query client, with the components that observe it.  Time is      *)
(* counted in minutes.                                                     *)

MaxObservers == 2
MaxWire == 2

(* staleTime: 5 * 60 * 1000 ms, gcTime: 30 * 60 * 1000 ms *)
staleTime == 5
gcTime == 30

NoRead == [cached |-> None, returned |-> None, age |-> 0,
           invalidated |-> FALSE, calls |-> 0, done |-> FALSE]

(* age: minutes since the data was written (Date.now() - dataUpdatedAt,    *)
(* counted up to staleTime + 1); gcIn: minutes left on the gc timer;       *)
(* detachedFor: minutes since the last observer left (up to gcTime);       *)
(* flights: fetches of the query the cache is waiting for; wire: network   *)
(* calls issued and not yet answered; issued: network calls issued for the *)
(* running fetch; waiting: requesters attached to the running fetch;       *)
(* evictedAfter: what detachedFor was when the entry was last evicted      *)
NoObservedQuery ==
    [data |-> None, age |-> 0, invalidated |-> FALSE,
     flights |-> 0, wire |-> 0, issued |-> 0, waiting |-> 0,
     observers |-> 0, detachedFor |-> None, gcIn |-> None, evictedAfter |-> None,
     read |-> NoRead]

(* isStale: invalidated, or no data, or staleTime has passed since the data *)
(* was written                                                              *)
IsStale(query) ==
    \/ query.invalidated
    \/ ~IsSome(query.data)
    \/ query.age >= staleTime

(* A fetch with every requester arriving on its own network call *)
Fetch_NoDedup(query, cancelRefetch) ==
    [query EXCEPT !.flights = 1, !.wire = @ + 1, !.issued = @ + 1, !.waiting = @ + 1]

(* query.fetch(): a requester of a query whose fetch is running attaches to *)
(* it, unless it asks to cancel and restart a refetch of a query with data; *)
(* the queryFn takes no signal, so a cancelled network call stays in flight *)
Fetch(query, cancelRefetch) ==
    IF query.flights > 0 /\ ~(IsSome(query.data) /\ cancelRefetch)
    THEN [query EXCEPT !.waiting = @ + 1]
    ELSE [query EXCEPT !.flights = 1, !.wire = @ + 1, !.issued = 1, !.waiting = 1]

(* The read without the staleness test: every mount fetches *)
Read_Always(query) == Fetch(query, FALSE)

(* The read of a mounting observer: fetch when the query is stale *)
Read(query) == IF IsStale(query) THEN Fetch(query, FALSE) ELSE query

(* gc without the retention window *)
ScheduleGc_Now(query) ==
    IF query.observers = 0 THEN [query EXCEPT !.gcIn = Some(0)] ELSE query

(* scheduleGc: the gc timer of a query without observers is set to gcTime *)
ScheduleGc(query) ==
    IF query.observers = 0 THEN [query EXCEPT !.gcIn = Some(gcTime)] ELSE query

(* A component renders useExampleQuery("1") *)
Mount ==
    /\ q.observers < MaxObservers /\ q.wire < MaxWire
    /\ LET q1 == [q EXCEPT !.observers = @ + 1, !.gcIn = None, !.detachedFor = None]
           q2 == Read(q1)
       IN  q' = [q2 EXCEPT !.read = [cached |-> q.data, returned |-> q2.data,
                                     age |-> q.age, invalidated |-> q.invalidated,
                                     calls |-> q2.wire - q.wire, done |-> TRUE]]
    /\ UNCHANGED <<server, cache, mut, toasts, now, req, call, theme, repos, auth>>

(* The component unmounts and no longer waits; a running fetch keeps running *)
Unmount ==
    /\ q.observers > 0
    /\ LET q1 == [q EXCEPT !.observers = @ - 1, !.waiting = Min(@, q.observers - 1),
                           !.read = NoRead] IN
       q' = IF q1.observers = 0
            THEN ScheduleGc([q1 EXCEPT !.detachedFor = Some(0)])
            ELSE q1
    /\ UNCHANGED <<server, cache, mut, toasts, now, req, call, theme, repos, auth>>

(* The response of the fetch the cache is waiting for *)
Resolve ==
    /\ q.flights > 0
    /\ q' = ScheduleGc([q EXCEPT !.data = Some("v"), !.age = 0,
                                 !.invalidated = FALSE, !.flights = @ - 1,
                                 !.wire = @ - 1, !.issued = 0,
                                 !.waiting = 0, !.read = NoRead])
    /\ UNCHANGED <<server, cache, mut, toasts, now, req, call, theme, repos, auth>>

Reject ==
    /\ q.flights > 0
    /\ q' = ScheduleGc([q EXCEPT !.flights = @ - 1, !.wire = @ - 1, !.issued = 0,
                                 !.waiting = 0, !.read = NoRead])
    /\ UNCHANGED <<server, cache, mut, toasts, now, req, call, theme, repos, auth>>

(* The response of a cancelled network call arrives and is dropped *)
DropResponse ==
    /\ q.wire > q.flights
    /\ q' = [q EXCEPT !.wire = @ - 1, !.read = NoRead]
    /\ UNCHANGED <<server, cache, mut, toasts, now, req, call, theme, repos, auth>>

(* onMutate: cancelQueries({ queryKey: exampleKeys.detail(id) }) *)
CancelFetch ==
    /\ q.flights > 0
    /\ q' = ScheduleGc([q EXCEPT !.flights = 0, !.issued = 0, !.waiting = 0,
                                 !.read = NoRead])
    /\ UNCHANGED <<server, cache, mut, toasts, now, req, call, theme, repos, auth>>

(* onSettled: invalidateQueries({ queryKey: exampleKeys.detail(id) }); the *)
(* refetch it starts is awaited by the observers only                     *)
Invalidate ==
    /\ IsSome(q.data) \/ q.flights > 0
    /\ q.wire < MaxWire
    /\ LET q1 == [q EXCEPT !.invalidated = TRUE, !.read = NoRead] IN
       q' = IF q.observers > 0
            THEN [Fetch(q1, TRUE) EXCEPT !.waiting = Min(@, q.observers)]
            ELSE q1
    /\ UNCHANGED <<server, cache, mut, toasts, now, req, call, theme, repos, auth>>

(* The gc timer fires: a query without observers and without a running     *)
(* fetch is removed from the cache, any other is kept                      *)
Collect ==
    /\ q.gcIn = Some(0)
    /\ q' = IF q.observers = 0 /\ q.flights = 0
            THEN [NoObservedQuery EXCEPT !.wire = q.wire,
                                         !.evictedAfter = q.detachedFor]
            ELSE [q EXCEPT !.gcIn = None, !.read = NoRead]
    /\ UNCHANGED <<server, cache, mut, toasts, now, req, call, theme, repos, auth>>

(* A minute passes; a timer that is due fires first *)
Tick ==
    /\ q.gcIn # Some(0)
    /\ IsSome(q.data) \/ IsSome(q.gcIn)
    /\ q' = [q EXCEPT !.age = IF IsSome(q.data) THEN Min(@ + 1, staleTime + 1) ELSE @,
                      !.gcIn = IF IsSome(@) THEN Some(Get(@) - 1) ELSE @,
                      !.detachedFor = IF IsSome(@) THEN Some(Min(Get(@) + 1, gcTime)) ELSE @,
                      !.read = NoRead]
    /\ UNCHANGED <<server, cache, mut, toasts, now, req, call, theme, repos, auth>>

-----------------------------------------------------------------------------
(* ThemeProvider *)

MaxWrites == 2

ThemeModes == {"light", "dark", "system"}

(* What useSystemColorScheme() reports; "null" stands for null or undefined *)
SystemSchemes == {"light", "dark", "null"}

(* What AsyncStorage may hold under THEME_STORAGE_KEY: nothing, or a string *)
StoredValues == {None, Some("light"), Some("dark"), Some("system"), Some("blue"), Some("")}

(* The resolution that ignores the system scheme *)
colorScheme_IgnoreSystem(themeMode, systemColorScheme) ==
    IF themeMode = "system" THEN "light" ELSE themeMode

(* colorScheme: themeMode, or systemColorScheme ?? 'light' in system mode *)
colorScheme(themeMode, systemColorScheme) ==
    IF themeMode = "system"
    THEN (IF systemColorScheme = "null" THEN "light" ELSE systemColorScheme)
    ELSE themeMode

(* contextValue (setThemeMode left out: it never changes) *)
contextValue(themeMode, systemColorScheme) ==
    [colorScheme |-> colorScheme(themeMode, systemColorScheme),
     themeMode |-> themeMode,
     isDark |-> colorScheme(themeMode, systemColorScheme) = "dark"]

(* A render that does not wait for the stored preference *)
Render_Ungated(t) ==
    [t EXCEPT !.context = contextValue(t.themeMode, t.systemColorScheme),
              !.nativewind = Some(colorScheme(t.themeMode, t.systemColorScheme)),
              !.children = TRUE]

(* The component re-renders: the memoized values are recomputed, the       *)
(* effect hands the resolved scheme to NativeWind once the theme is loaded *)
(* and the children are rendered only then                                 *)
Render(t) ==
    [t EXCEPT !.context = contextValue(t.themeMode, t.systemColorScheme),
              !.nativewind = IF t.isLoaded
                             THEN Some(colorScheme(t.themeMode, t.systemColorScheme))
                             ELSE t.nativewind,
              !.children = t.isLoaded]

(* The provider as it mounts: useState('system'), useState(false) *)
MountedTheme(stored, systemColorScheme) ==
    [themeMode |-> "system", isLoaded |-> FALSE, systemColorScheme |-> systemColorScheme,
     stored |-> stored, loaded |-> None, touched |-> FALSE,
     writes |-> <<>>, warnings |-> 0, raised |-> FALSE,
     context |-> contextValue("system", systemColorScheme), nativewind |-> None,
     children |-> FALSE, failed |-> FALSE, reordered |-> FALSE]

(* loadThemePreference: getItem resolves *)
LoadThemePreference ==
    /\ ~theme.isLoaded
    /\ LET stored == theme.stored
           valid == IsSome(stored) /\ Get(stored) \in ThemeModes
           t1 == IF valid THEN [theme EXCEPT !.themeMode = Get(stored)] ELSE theme
       IN  theme' = Render([t1 EXCEPT !.isLoaded = TRUE, !.loaded = stored])
    /\ UNCHANGED <<server, cache, mut, toasts, now, req, call, q, repos, auth>>

(* loadThemePreference: getItem rejects; the failure is logged *)
LoadThemePreferenceFails ==
    /\ ~theme.isLoaded
    /\ theme' = Render([theme EXCEPT !.isLoaded = TRUE, !.warnings = 1])
    /\ UNCHANGED <<server, cache, mut, toasts, now, req, call, q, repos, auth>>

(* setThemeMode(mode) up to its await: the state is set, then setItem is   *)
(* called; the children that call it render only once the theme is loaded *)
SetThemeMode(mode) ==
    /\ theme.isLoaded
    /\ Len(theme.writes) < MaxWrites
    /\ theme' = Render([theme EXCEPT !.themeMode = mode, !.touched = TRUE,
                                     !.writes = Append(@, [mode |-> mode,
                                                           previous |-> theme.themeMode])])
    /\ UNCHANGED <<server, cache, mut, toasts, now, req, call, q, repos, auth>>

Without(writes, i) == SubSeq(writes, 1, i - 1) \o SubSeq(writes, i + 1, Len(writes))

(* A pending setItem resolves: nothing in setThemeMode orders the writes   *)
(* of two calls, the storage completes them in the order it chooses        *)
SetItemResolves(i) ==
    /\ i \in DOMAIN theme.writes
    /\ theme' = Render([theme EXCEPT !.stored = Some(theme.writes[i].mode),
                                     !.writes = Without(@, i),
                                     !.reordered = @ \/ i > 1])
    /\ UNCHANGED <<server, cache, mut, toasts, now, req, call, q, repos, auth>>

(* A pending setItem rejects: the catch logs a warning *)
SetItemRejects(i) ==
    /\ i \in DOMAIN theme.writes
    /\ theme' = Render([theme EXCEPT !.writes = Without(@, i), !.warnings = 1,
                                     !.failed = TRUE, !.reordered = @ \/ i > 1])
    /\ UNCHANGED <<server, cache, mut, toasts, now, req, call, q, repos, auth>>

(* The system scheme changes: useSystemColorScheme() re-renders the provider *)
SystemColorSchemeChanges(scheme) ==
    /\ scheme # theme.systemColorScheme
    /\ theme' = Render([theme EXCEPT !.systemColorScheme = scheme])
    /\ UNCHANGED <<server, cache, mut, toasts, now, req, call, q, repos, auth>>

-----------------------------------------------------------------------------
(* Mock repositories *)

MaxCreates == 2

Collections == {"posts", "notes"}

(* `mock-${n}` *)
MockId(n) == "mock-" \o ToString(n)
EntityIds == {MockId(n) : n \in 1..MaxCreates}
AskedIds == EntityIds \cup {"unknown"}

(* What create is given (an id in the data is overwritten) and what update *)
(* is given                                                                *)
CreateData == {[title |-> "A"], [title |-> "B", id |-> "forged"]}
UpdateData == {[title |-> "B"], [title |-> "A", id |-> "forged"]}

(* QueryOptions: none, or orderBy title with limit and offset *)
QueryOptions ==
    {None} \cup {Some([direction |-> d, offset |-> o, limit |-> l]) :
                    d \in {"none", "asc", "desc"}, o \in {0, 1}, l \in {0, 1}}

Paths == {"a.png", "b.png"}
UserIds == {"u1"}
UpdateProfileData == {[displayName |-> "N"], [bio |-> "B"]}
Emails == {"a@example.com", "b@example.com"}
MessageHandlers == {"h1", "h2"}

RepositoryKinds == {"database", "storage", "user", "auth", "analytics", "notification"}

(* The outcome of an operation: the promise resolves with a value, with    *)
(* null or with nothing, or it rejects with an Error                       *)
Resolved(op, value) ==
    [op |-> op, outcome |-> "resolved", kind |-> "value", value |-> Some(value), message |-> ""]
ResolvedNull(op) ==
    [op |-> op, outcome |-> "resolved", kind |-> "null", value |-> None, message |-> ""]
ResolvedVoid(op) ==
    [op |-> op, outcome |-> "resolved", kind |-> "void", value |-> None, message |-> ""]
Rejected(op, message) ==
    [op |-> op, outcome |-> "rejected", kind |-> "Error", value |-> None, message |-> message]

NoOperation == ResolvedVoid("none")

(* A repository as it is constructed *)
NewRepository(kind) ==
    [repo |-> kind,
     collections |-> [c \in Collections |-> [id \in EntityIds |-> None]],
     idCounter |-> 0,
     created |-> <<>>,
     asked |-> [collection |-> "", id |-> ""],
     storage |-> [path \in Paths |-> None],
     profiles |-> [userId \in UserIds |-> None],
     currentUser |-> None,
     token |-> None,
     handlers |-> {},
     last |-> NoOperation]

NoRepository == NewRepository("none")

(* MockDatabaseRepository *)

(* An id counter that starts again for every collection *)
NextId_PerCollection(r, collection) ==
    Cardinality({id \in EntityIds : IsSome(r.collections[collection][id])}) + 1

(* ++this.idCounter *)
NextId(r, collection) == r.idCounter + 1

DbCreate(collection, data) ==
    /\ repos.repo = "database"
    /\ repos.idCounter < MaxCreates
    /\ NextId(repos, collection) \in 1..MaxCreates
    /\ LET id == MockId(NextId(repos, collection))
           entity == Spread(data, [id |-> id])
       IN  repos' = [repos EXCEPT !.idCounter = @ + 1,
                                  !.collections[collection][id] = Some(entity),
                                  !.created = Append(@, id),
                                  !.asked = [collection |-> collection, id |-> id],
                                  !.last = Resolved("create", entity)]
    /\ UNCHANGED <<server, cache, mut, toasts, now, req, call, q, theme, auth>>

(* get(id) ?? null *)
DbGet(r, collection, id) ==
    IF id \in EntityIds THEN r.collections[collection][id] ELSE None

DbRead(collection, id) ==
    /\ repos.repo = "database"
    /\ LET found == DbGet(repos, collection, id)
       IN  repos' = [repos EXCEPT
                        !.asked = [collection |-> collection, id |-> id],
                        !.last = IF IsSome(found) THEN Resolved("read", Get(found))
                                 ELSE ResolvedNull("read")]
    /\ UNCHANGED <<server, cache, mut, toasts, now, req, call, q, theme, auth>>

(* An update that lets the patch replace the id *)
Updated_PatchWins(existing, data, id) == Spread(existing, data)

(* { ...existing, ...data, id } *)
Updated(existing, data, id) == Spread(Spread(existing, data), [id |-> id])

DbUpdate(collection, id, data) ==
    /\ repos.repo = "database"
    /\ LET existing == DbGet(repos, collection, id)
       IN  IF ~IsSome(existing)
           THEN repos' = [repos EXCEPT
                            !.asked = [collection |-> collection, id |-> id],
                            !.last = Rejected("update", "Entity not found: " \o id)]
           ELSE LET updated == Updated(Get(existing), data, id)
                IN  repos' = [repos EXCEPT
                                !.collections[collection][id] = Some(updated),
                                !.asked = [collection |-> collection, id |-> id],
                                !.last = Resolved("update", updated)]
    /\ UNCHANGED <<server, cache, mut, toasts, now, req, call, q, theme, auth>>

DbDelete(collection, id) ==
    /\ repos.repo = "database"
    /\ repos' = [repos EXCEPT
                    !.collections[collection] =
                        [i \in EntityIds |-> IF i = id THEN None ELSE @[i]],
                    !.asked = [collection |-> collection, id |-> id],
                    !.last = ResolvedVoid("delete")]
    /\ UNCHANGED <<server, cache, mut, toasts, now, req, call, q, theme, auth>>

(* The values of a collection in insertion order, which is the order of    *)
(* the ids                                                                 *)
RECURSIVE Values(_, _, _)
Values(r, collection, n) ==
    IF n > MaxCreates THEN <<>>
    ELSE (IF IsSome(r.collections[collection][MockId(n)])
          THEN <<Get(r.collections[collection][MockId(n)])>> ELSE <<>>)
            \o Values(r, collection, n + 1)

(* items.sort by the title, stable *)
Before(a, b, direction) ==
    IF direction = "asc" THEN a.title = "A" /\ b.title = "B"
    ELSE a.title = "B" /\ b.title = "A"

RECURSIVE Insert(_, _, _)
Insert(item, sorted, direction) ==
    IF sorted = <<>> THEN <<item>>
    ELSE IF Before(item, Head(sorted), direction) THEN <<item>> \o sorted
    ELSE <<Head(sorted)>> \o Insert(item, Tail(sorted), direction)

RECURSIVE Sorted(_, _)
Sorted(items, direction) ==
    IF items = <<>> THEN <<>>
    ELSE Insert(items[Len(items)], Sorted(SubSeq(items, 1, Len(items) - 1), direction),
                direction)

DbList(collection, options) ==
    /\ repos.repo = "database"
    /\ LET items == Values(repos, collection, 1)
           ordered == IF IsSome(options) /\ Get(options).direction # "none"
                      THEN Sorted(items, Get(options).direction) ELSE items
           skipped == IF IsSome(options) /\ Get(options).offset # 0
                      THEN SubSeq(ordered, Get(options).offset + 1, Len(ordered))
                      ELSE ordered
           taken == IF IsSome(options) /\ Get(options).limit # 0
                    THEN SubSeq(skipped, 1, Min(Get(options).limit, Len(skipped)))
                    ELSE skipped
       IN  repos' = [repos EXCEPT !.asked = [collection |-> collection, id |-> ""],
                                  !.last = Resolved("list", taken)]
    /\ UNCHANGED <<server, cache, mut, toasts, now, req, call, q, theme, auth>>

(* MockStorageRepository *)

StorageUpload(path) ==
    /\ repos.repo = "storage"
    /\ repos' = [repos EXCEPT !.storage[path] = Some("blob"),
                              !.last = Resolved("upload",
                                          [path |-> path, url |-> "mock://storage/" \o path])]
    /\ UNCHANGED <<server, cache, mut, toasts, now, req, call, q, theme, auth>>

StorageDownload(path) ==
    /\ repos.repo = "storage"
    /\ repos' = [repos EXCEPT
                    !.asked = [collection |-> "", id |-> path],
                    !.last = IF ~IsSome(repos.storage[path])
                             THEN Rejected("download", "File not found: " \o path)
                             ELSE Resolved("download", Get(repos.storage[path]))]
    /\ UNCHANGED <<server, cache, mut, toasts, now, req, call, q, theme, auth>>

StorageDelete(path) ==
    /\ repos.repo = "storage"
    /\ repos' = [repos EXCEPT !.storage[path] = None, !.last = ResolvedVoid("delete")]
    /\ UNCHANGED <<server, cache, mut, toasts, now, req, call, q, theme, auth>>

StorageGetUrl(path) ==
    /\ repos.repo = "storage"
    /\ repos' = [repos EXCEPT !.last = Resolved("getUrl", "mock://storage/" \o path)]
    /\ UNCHANGED <<server, cache, mut, toasts, now, req, call, q, theme, auth>>

(* MockUserRepository *)

UserGetProfile(userId) ==
    /\ repos.repo = "user"
    /\ repos' = [repos EXCEPT !.last =
                    IF IsSome(repos.profiles[userId])
                    THEN Resolved("getProfile", Get(repos.profiles[userId]))
                    ELSE ResolvedNull("getProfile")]
    /\ UNCHANGED <<server, cache, mut, toasts, now, req, call, q, theme, auth>>

(* The profile is built anew: id, email and createdAt kept, the data spread *)
UserUpdateProfile(userId, data) ==
    /\ repos.repo = "user"
    /\ LET existing == repos.profiles[userId]
           profile == Spread([id |-> userId,
                              email |-> IF IsSome(existing) THEN Get(existing).email
                                        ELSE "mock@example.com"],
                             data)
       IN  repos' = [repos EXCEPT !.profiles[userId] = Some(profile),
                                  !.last = Resolved("updateProfile", profile)]
    /\ UNCHANGED <<server, cache, mut, toasts, now, req, call, q, theme, auth>>

UserDeleteAccount(userId) ==
    /\ repos.repo = "user"
    /\ repos' = [repos EXCEPT !.profiles[userId] = None,
                              !.last = ResolvedVoid("deleteAccount")]
    /\ UNCHANGED <<server, cache, mut, toasts, now, req, call, q, theme, auth>>

(* MockAuthRepository *)

AuthSign(op, email) ==
    /\ repos.repo = "auth"
    /\ LET user == [id |-> "mock-user-id", email |-> email,
                    emailVerified |-> op = "signIn"]
       IN  repos' = [repos EXCEPT !.currentUser = Some(user), !.last = Resolved(op, user)]
    /\ UNCHANGED <<server, cache, mut, toasts, now, req, call, q, theme, auth>>

AuthSignOut ==
    /\ repos.repo = "auth"
    /\ repos' = [repos EXCEPT !.currentUser = None, !.last = ResolvedVoid("signOut")]
    /\ UNCHANGED <<server, cache, mut, toasts, now, req, call, q, theme, auth>>

AuthGetCurrentUser ==
    /\ repos.repo = "auth"
    /\ repos' = [repos EXCEPT !.last =
                    IF IsSome(repos.currentUser)
                    THEN Resolved("getCurrentUser", Get(repos.currentUser))
                    ELSE ResolvedNull("getCurrentUser")]
    /\ UNCHANGED <<server, cache, mut, toasts, now, req, call, q, theme, auth>>

AuthResetPassword ==
    /\ repos.repo = "auth"
    /\ repos' = [repos EXCEPT !.last = ResolvedVoid("resetPassword")]
    /\ UNCHANGED <<server, cache, mut, toasts, now, req, call, q, theme, auth>>

(* MockAnalyticsRepository: track, identify, screen and reset do nothing *)
AnalyticsCall(op) ==
    /\ repos.repo = "analytics"
    /\ repos' = [repos EXCEPT !.last = ResolvedVoid(op)]
    /\ UNCHANGED <<server, cache, mut, toasts, now, req, call, q, theme, auth>>

(* MockNotificationRepository *)

NotificationRegister ==
    /\ repos.repo = "notification"
    /\ repos' = [repos EXCEPT !.token = Some("mock-push-token"),
                              !.last = ResolvedVoid("register")]
    /\ UNCHANGED <<server, cache, mut, toasts, now, req, call, q, theme, auth>>

NotificationUnregister ==
    /\ repos.repo = "notification"
    /\ repos' = [repos EXCEPT !.token = None, !.last = ResolvedVoid("unregister")]
    /\ UNCHANGED <<server, cache, mut, toasts, now, req, call, q, theme, auth>>

NotificationGetToken ==
    /\ repos.repo = "notification"
    /\ repos' = [repos EXCEPT !.last =
                    IF IsSome(repos.token) THEN Resolved("getToken", Get(repos.token))
                    ELSE ResolvedNull("getToken")]
    /\ UNCHANGED <<server, cache, mut, toasts, now, req, call, q, theme, auth>>

(* onMessage adds the handler; the function it returns removes it *)
NotificationOnMessage(handler) ==
    /\ repos.repo = "notification"
    /\ repos' = [repos EXCEPT !.handlers = @ \cup {handler},
                              !.last = ResolvedVoid("onMessage")]
    /\ UNCHANGED <<server, cache, mut, toasts, now, req, call, q, theme, auth>>

NotificationUnsubscribe(handler) ==
    /\ repos.repo = "notification"
    /\ repos' = [repos EXCEPT !.handlers = @ \ {handler},
                              !.last = ResolvedVoid("unsubscribe")]
    /\ UNCHANGED <<server, cache, mut, toasts, now, req, call, q, theme, auth>>

-----------------------------------------------------------------------------
(* useAuthStore *)

AuthUsers == {[id |-> "u1", email |-> "a@example.com"],
              [id |-> "u2", email |-> "b@example.com"]}
Tokens == {"t1", "t2"}

AuthState(user, token, isAuthenticated) ==
    [user |-> user, token |-> token, isAuthenticated |-> isAuthenticated]

(* user: null, token: null, isAuthenticated: false *)
InitialAuthState == AuthState(None, None, FALSE)

(* The store as it is created over a storage that holds persisted or nothing *)
InitialAuthStore(persisted) ==
    [state |-> InitialAuthState, persisted |-> persisted, read |-> persisted,
     hydrated |-> FALSE, before |-> InitialAuthState, op |-> "none"]

(* persist: every set writes the state under 'auth-storage' *)
Set(partial, op) ==
    LET state == Spread(auth.state, partial)
    IN  auth' = [auth EXCEPT !.state = state, !.persisted = Some(state),
                             !.before = auth.state, !.op = op]

(* A setToken that also marks the session authenticated *)
setToken_Authenticates(token) == [token |-> Some(token), isAuthenticated |-> TRUE]

(* The partial states the three actions set *)
setAuthPartial(user, token) ==
    [user |-> Some(user), token |-> Some(token), isAuthenticated |-> TRUE]

setTokenPartial(token) == [token |-> Some(token)]

clearAuthPartial == [user |-> None, token |-> None, isAuthenticated |-> FALSE]

setAuth(user, token) ==
    /\ Set(setAuthPartial(user, token), "setAuth")
    /\ UNCHANGED <<server, cache, mut, toasts, now, req, call, q, theme, repos>>

setToken(token) ==
    /\ Set(setTokenPartial(token), "setToken")
    /\ UNCHANGED <<server, cache, mut, toasts, now, req, call, q, theme, repos>>

clearAuth ==
    /\ Set(clearAuthPartial, "clearAuth")
    /\ UNCHANGED <<server, cache, mut, toasts, now, req, call, q, theme, repos>>

(* persist: the stored state, if any, is merged over the state once. The  *)
(* read of the storage began when the store was created: it yields what    *)
(* the storage held then, or what a set has written since                  *)
Rehydrate ==
    /\ ~auth.hydrated
    /\ \E stored \in {auth.read, auth.persisted} :
          auth' = [auth EXCEPT !.hydrated = TRUE,
                              !.before = auth.state, !.op = "rehydrate",
                              !.state = IF IsSome(stored)
                                        THEN Spread(@, Get(stored)) ELSE @]
    /\ UNCHANGED <<server, cache, mut, toasts, now, req, call, q, theme, repos>>

-----------------------------------------------------------------------------
(* The specification of the cache protocol *)

Init ==
    /\ server = [id \in Ids |->
                    Some(Example(id, "A", IF id = "1" THEN "draft" ELSE "active", 0))]
    /\ cache = [k \in QueryKeys |-> NoQuery]
    /\ mut = [m \in Muts |-> IdleMutation]
    /\ toasts = <<>>
    /\ now = 0
    /\ req = IdleRequest
    /\ call = NoCall
    /\ q = NoObservedQuery
    /\ theme = MountedTheme(None, "light")
    /\ repos = NoRepository
    /\ auth = InitialAuthStore(None)

(* The keys the screens of this specification mount queries on: the detail *)
(* screen of example "1" and the unfiltered list                           *)
UsedKeys == {detail("1"), list(NoParams)}

Next ==
    \/ \E key \in UsedKeys : StartFetch(key)
    \/ \E key \in QueryKeys : FetchSuccess(key)
    \/ \E key \in QueryKeys : FetchError(key)
    \/ \E m \in Muts, id \in Ids, data \in UpdateExampleInput, t \in 0..MaxTime : UpdateOnMutate(m, id, data, t)
    \/ \E m \in Muts : MutationFn(m)
    \/ \E m \in Muts : UpdateOnSuccess(m)
    \/ \E m \in Muts, error \in WriteErrors : UpdateOnError(m, error)
    \/ \E m \in Muts, active \in {{}, UsedKeys} : UpdateOnSettled(m, active)
    \/ \E m \in Muts, id \in Ids : DeleteOnMutate(m, id)
    \/ \E m \in Muts : DeleteOnSuccess(m)
    \/ \E m \in Muts, error \in WriteErrors : DeleteOnError(m, error)
    \/ \E m \in Muts, active \in {{}, UsedKeys} : DeleteOnSettled(m, active)

Spec == Init /\ [][Next]_vars

-----------------------------------------------------------------------------
(* The specification of one logical request under the retry policy *)

NextRequest ==
    \/ \E kind \in RequestKinds : RequestStart(kind)
    \/ AttemptSucceeds
    \/ \E error \in RequestErrors : AttemptFails(error)
    \/ RetryFires
    \/ RequestCancel
    \/ RequestReset

SpecRequest == Init /\ [][NextRequest]_vars

-----------------------------------------------------------------------------
(* The specification of the pure functions of the retry policy *)

InitPolicy ==
    /\ server = [id \in Ids |->
                    Some(Example(id, "A", IF id = "1" THEN "draft" ELSE "active", 0))]
    /\ cache = [k \in QueryKeys |-> NoQuery]
    /\ mut = [m \in Muts |-> IdleMutation]
    /\ toasts = <<>>
    /\ now = 0
    /\ req = IdleRequest
    /\ call \in PolicyCalls
    /\ q = NoObservedQuery
    /\ theme = MountedTheme(None, "light")
    /\ repos = NoRepository
    /\ auth = InitialAuthStore(None)

NextPolicy ==
    \/ ApplyShouldRetry
    \/ ApplyRetryDelay

SpecPolicy == InitPolicy /\ [][NextPolicy]_vars

-----------------------------------------------------------------------------
(* Properties of the optimistic mutations (checked under Spec) *)

Detail(m) == cache[detail(mut[m].id)].data
List == cache[list(NoParams)].data
PreviousExample(m) == mut[m].ctx.previousExample
PreviousList(m) == mut[m].ctx.previousList

(* after is before with the fields of data merged over it; the fields in *)
(* stamped hold the time t instead                                       *)
IsMerged(after, before, data, stamped, t) ==
    /\ DOMAIN after = (DOMAIN before) \cup (DOMAIN data) \cup stamped
    /\ \A f \in DOMAIN after :
          after[f] = IF f \in stamped THEN t
                     ELSE IF f \in DOMAIN data THEN data[f] ELSE before[f]

(* The state right after onMutate of an update whose detail entry was cached: *)
(* the detail entry, and the item of that id in the cached list, are merged,  *)
(* every other item and the total are as before                               *)
OptimisticUpdateVisible(m, stamped) ==
    (mut[m].pc = "mutated" /\ mut[m].kind = "update" /\ IsSome(PreviousExample(m))) =>
        /\ IsSome(Detail(m))
        /\ IsMerged(Get(Detail(m)), Get(PreviousExample(m)), mut[m].data, stamped, now)
        /\ IsSome(PreviousList(m)) =>
              /\ IsSome(List)
              /\ Get(List).total = Get(PreviousList(m)).total
              /\ Len(Get(List).data) = Len(Get(PreviousList(m)).data)
              /\ \A i \in 1..Len(Get(List).data) :
                    LET before == Get(PreviousList(m)).data[i]
                        after == Get(List).data[i]
                    IN  IF before.id = mut[m].id
                        THEN IsMerged(after, before, mut[m].data, stamped, now)
                        ELSE after = before

(* C1 as stated: right after onMutate of an update whose detail entry is     *)
(* cached, the detail entry is the previous entity with exactly the fields   *)
(* of data merged over it, and so is the item of that id in the cached list, *)
(* every other item being unchanged.                                         *)
C1_MergedOnly == \A m \in Muts : OptimisticUpdateVisible(m, {})

(* C1 as amended: the same, and updatedAt of the detail entry and of the     *)
(* patched list item is set to the time of the call.                         *)
C1_OptimisticUpdate == \A m \in Muts : OptimisticUpdateVisible(m, {"updatedAt"})

C1_Witness ==
    \E m \in Muts :
        /\ mut[m].pc = "mutated" /\ mut[m].kind = "update"
        /\ IsSome(PreviousExample(m)) /\ IsSome(PreviousList(m))
        /\ Len(Get(PreviousList(m)).data) = 2
        /\ Get(PreviousExample(m)).title # mut[m].data.title
        /\ Get(PreviousExample(m)).updatedAt # now

(* C2 as stated: after onError of an update, the detail entry and the list   *)
(* entry are exactly the values snapshotted at mutation start.               *)
C2_EqualsSnapshot ==
    \A m \in Muts :
        (mut[m].pc = "failed" /\ mut[m].kind = "update") =>
            /\ Detail(m) = PreviousExample(m)
            /\ List = PreviousList(m)

(* C2 as amended: after onError of an update, each of the two entries that   *)
(* was cached at mutation start is exactly its snapshot (an entry that was   *)
(* not cached then has no snapshot to be restored from).                     *)
C2_Rollback ==
    \A m \in Muts :
        (mut[m].pc = "failed" /\ mut[m].kind = "update") =>
            /\ IsSome(PreviousExample(m)) => Detail(m) = PreviousExample(m)
            /\ IsSome(PreviousList(m)) => List = PreviousList(m)

C2_Witness ==
    \E m \in Muts :
        /\ mut[m].pc = "failed" /\ mut[m].kind = "update"
        /\ IsSome(PreviousExample(m)) /\ IsSome(PreviousList(m))
        /\ Get(PreviousExample(m)).title # mut[m].data.title
        /\ \E i \in 1..Len(Get(PreviousList(m)).data) :
              Get(PreviousList(m)).data[i].id = mut[m].id

ListIds(l) == {l.data[i].id : i \in 1..Len(l.data)}
ListItems(l) == {l.data[i] : i \in 1..Len(l.data)}

(* A delete of an id that is in the cached list: right after onMutate the    *)
(* list lacks the item and its total is one less, and the detail entry is    *)
(* gone; after onError the list is its snapshot, and the detail entry is its *)
(* snapshot (always, or only when it had one)                                *)
OptimisticDeleteVisible(m, always) ==
    (mut[m].kind = "delete" /\ IsSome(PreviousList(m))
        /\ mut[m].id \in ListIds(Get(PreviousList(m)))) =>
        /\ mut[m].pc = "mutated" =>
              /\ IsSome(List)
              /\ mut[m].id \notin ListIds(Get(List))
              /\ ListItems(Get(List)) =
                    {x \in ListItems(Get(PreviousList(m))) : x.id # mut[m].id}
              /\ Len(Get(List).data) = Len(Get(PreviousList(m)).data) - 1
              /\ Get(List).total = Get(PreviousList(m)).total - 1
              /\ ~Exists(cache[detail(mut[m].id)])
        /\ mut[m].pc = "failed" =>
              /\ List = PreviousList(m)
              /\ (always \/ IsSome(PreviousExample(m))) => Detail(m) = PreviousExample(m)

(* C3 as stated: the optimistic delete removes the item, decrements the      *)
(* total and removes the detail entry; on failure the list entry and the     *)
(* detail entry are restored to their values before the mutation.            *)
C3_RestoresBoth == \A m \in Muts : OptimisticDeleteVisible(m, TRUE)

(* C3 as amended: the same, the detail entry being restored when it was      *)
(* cached at mutation start.                                                 *)
C3_OptimisticDelete == \A m \in Muts : OptimisticDeleteVisible(m, FALSE)

C3_Witness ==
    \E m \in Muts :
        /\ mut[m].kind = "delete" /\ mut[m].pc = "failed"
        /\ IsSome(PreviousExample(m)) /\ IsSome(PreviousList(m))
        /\ Len(Get(PreviousList(m)).data) = 2
        /\ mut[m].id \in ListIds(Get(PreviousList(m)))

(* The mutation m is waiting for its write request and has written key       *)
(* optimistically                                                            *)
WroteOptimistically(m, key) ==
    /\ mut[m].pc = "pending"
    /\ \/ key = detail(mut[m].id) /\ mut[m].kind = "update" /\ IsSome(PreviousExample(m))
       \/ key = list(NoParams) /\ IsSome(PreviousList(m))

(* C4: while a mutation that wrote a key optimistically is pending, no fetch *)
(* response replaces the value of that key.                                  *)
C4_NoClobber ==
    [][\A key \in QueryKeys :
          (FetchSuccess(key) /\ cache'[key].data # cache[key].data) =>
              ~\E m \in Muts : WroteOptimistically(m, key)]_vars

(* C5: when an update or a delete settles, after success or after failure,  *)
(* the detail key of its id and the list keys that hold data in the cache    *)
(* are marked stale.                                                         *)
C5_SettledInvalidates ==
    [][\A m \in Muts :
          (mut[m].pc \in {"succeeded", "failed"} /\ mut'[m].pc = "settled") =>
              \A key \in QueryKeys :
                  (IsSome(cache'[key].data)
                      /\ (key = detail(mut[m].id) \/ Matches(lists, key)))
                      => cache'[key].invalidated]_vars

-----------------------------------------------------------------------------
(* Properties of the retry policy (checked under SpecPolicy and SpecRequest) *)

(* C6: shouldRetry is false once failureCount >= maxRetries; otherwise true  *)
(* for an error that is no ApiError, and for an ApiError true if status >=   *)
(* 500, true for 408 and 429, false for every other 4xx, true below 400.     *)
C6_RetryClassification ==
    (call.fn = "shouldRetry" /\ call.done) =>
        LET status == call.error.status
            expected ==
                IF call.failureCount >= call.maxRetries THEN FALSE
                ELSE IF call.error.kind # "ApiError" THEN TRUE
                ELSE IF status >= 500 \/ status = 408 \/ status = 429 THEN TRUE
                ELSE IF status \in 400..499 THEN FALSE
                ELSE status < 400
        IN  call.retry = expected

C6_Witness ==
    /\ call.fn = "shouldRetry" /\ call.done
    /\ call.failureCount = 0 /\ call.maxRetries = 1
    /\ call.error.kind = "ApiError" /\ call.error.status = 429
    /\ call.retry

(* C7: failureCount starts at 0 and grows by one per failed attempt; a query *)
(* makes at most 4 attempts and a mutation at most 2; a failure is surfaced  *)
(* exactly when the budget is used up or the error is a 4xx other than 408   *)
(* and 429, which is never retried.                                          *)
C7_RetryBudget ==
    LET budget == IF req.kind = "query" THEN 3 ELSE 1
        clientError ==
            /\ IsSome(req.error) /\ Get(req.error).kind = "ApiError"
            /\ Get(req.error).status \in (400..499) \ {408, 429}
    IN  /\ req.pc # "idle" => req.attempts \in 1..(budget + 1)
        /\ req.pc = "running" => req.failureCount = req.attempts - 1
        /\ req.pc = "waiting" => (req.failureCount = req.attempts /\ ~clientError)
        /\ req.pc = "error" => (clientError \/ req.attempts = budget + 1)

C7_Witness ==
    /\ req.kind = "query" /\ req.pc = "error"
    /\ req.attempts = 4 /\ req.failureCount = 3

(* C8: the delay is min(1000 * 2^attemptIndex, 30000), it never exceeds      *)
(* 30000, it does not decrease with attemptIndex, and queries and mutations  *)
(* use the same delay.                                                       *)
C8_Backoff ==
    (call.fn = "calculateRetryDelay" /\ call.done) =>
        LET n == call.attemptIndex
            expected == IF 1000 * (2 ^ n) <= 30000 THEN 1000 * (2 ^ n) ELSE 30000
        IN  /\ call.queryDelay = expected
            /\ call.mutationDelay = expected
            /\ call.queryDelay <= 30000
            /\ n > 0 => call.queryDelay >= QueryRetryDelay(n - 1)
            /\ n = 0 => call.queryDelay = 1000
            /\ n = 1 => call.queryDelay = 2000
            /\ n = 2 => call.queryDelay = 4000
            /\ n = 10 => call.queryDelay = 30000

C8_Witness ==
    /\ call.fn = "calculateRetryDelay" /\ call.done
    /\ call.attemptIndex = 10 /\ call.queryDelay = 30000 /\ call.mutationDelay = 30000

(* C9: a request that fails because its signal was aborted is never retried, *)
(* and it is classified as "Request was cancelled.", neither a network error *)
(* nor an auth error.                                                        *)
C9_CancelNeverRetried ==
    (IsSome(req.error) /\ Get(req.error) = AbortError) =>
        /\ req.pc # "waiting"
        /\ parseError(Get(req.error)) =
              ParsedError("Request was cancelled.", FALSE, FALSE, None)

(* C10: a request that finally fails has shown exactly one error toast, with *)
(* the message parseError derives from the error; an attempt that is retried *)
(* shows no toast.                                                           *)
C10_OneClassifiedToast ==
    /\ req.pc = "error" =>
          toasts = <<Toast("error", parseError(Get(req.error)).message)>>
    /\ req.pc = "waiting" => toasts = <<>>

-----------------------------------------------------------------------------
(* The specification of the list screen: the unfiltered list and the list    *)
(* filtered by status are both mounted                                       *)

ListKeys == {list(p) : p \in FetchExamplesParams}

NextLists ==
    \/ \E key \in ListKeys : StartFetch(key)
    \/ \E key \in QueryKeys : FetchSuccess(key)
    \/ \E key \in QueryKeys : FetchError(key)
    \/ \E m \in Muts, id \in Ids, data \in UpdateExampleInput, t \in 0..MaxTime : UpdateOnMutate(m, id, data, t)
    \/ \E m \in Muts : MutationFn(m)
    \/ \E m \in Muts : UpdateOnSuccess(m)
    \/ \E m \in Muts, error \in WriteErrors : UpdateOnError(m, error)
    \/ \E m \in Muts, active \in {{}, ListKeys} : UpdateOnSettled(m, active)
    \/ \E m \in Muts, id \in Ids : DeleteOnMutate(m, id)
    \/ \E m \in Muts : DeleteOnSuccess(m)
    \/ \E m \in Muts, error \in WriteErrors : DeleteOnError(m, error)
    \/ \E m \in Muts, active \in {{}, ListKeys} : DeleteOnSettled(m, active)

SpecLists == Init /\ [][NextLists]_vars

(* C11: right after onMutate, in every cached list of the entity, filtered   *)
(* lists included, the item with the mutation's id carries the fields of an  *)
(* update's data, and is absent after a delete.                              *)
C11_ListFanOut ==
    \A m \in Muts : \A p \in FetchExamplesParams :
        (mut[m].pc = "mutated" /\ IsSome(cache[list(p)].data)) =>
            LET l == Get(cache[list(p)].data) IN
            \A i \in 1..Len(l.data) :
                l.data[i].id = mut[m].id =>
                    /\ mut[m].kind = "update"
                    /\ \A f \in DOMAIN mut[m].data : l.data[i][f] = mut[m].data[f]

-----------------------------------------------------------------------------
(* The specification of one observed query *)

NextQuery ==
    \/ Mount
    \/ Unmount
    \/ Resolve
    \/ Reject
    \/ DropResponse
    \/ CancelFetch
    \/ Invalidate
    \/ Collect
    \/ Tick

SpecQuery == Init /\ [][NextQuery]_vars

-----------------------------------------------------------------------------
(* The specification of the error classification *)

ErrorPayloads ==
    {None} \cup
    {Some(Payload(m, e, es)) :
        m \in {Absent, Str("Title is required"), Str("")},
        e \in {Absent, Str("Bad input"), ObjectWithMessage("Nested"), ObjectWithoutMessage},
        es \in {<<>>, <<Str("First")>>, <<ObjectWithMessage("FirstNested"), Str("Second")>>,
                <<ObjectWithoutMessage>>}}

ClassifiedErrors ==
    {ApiError(status, data) : status \in {400, 401, 403, 404, 418, 500, 503},
                              data \in ErrorPayloads}
        \cup NetworkFailures
        \cup {AbortError, GenericError("boom"), GenericError(""),
              [GenericError("Cannot read properties of undefined") EXCEPT
                  !.kind = "TypeError", !.name = "TypeError"],
              StringError("plain"), StringError(""), OtherThrown}

(* The customMessage a caller of handleApiError passes, None for none *)
CustomMessages == {None, Some("Could not save"), Some("")}

NoParsed == ParsedError("", FALSE, FALSE, None)

InitClassify ==
    /\ server = [id \in Ids |->
                    Some(Example(id, "A", IF id = "1" THEN "draft" ELSE "active", 0))]
    /\ cache = [k \in QueryKeys |-> NoQuery]
    /\ mut = [m \in Muts |-> IdleMutation]
    /\ toasts = <<>>
    /\ now = 0
    /\ req = IdleRequest
    /\ call \in {[fn |-> "parseError", error |-> e, done |-> FALSE, parsed |-> NoParsed,
                  via |-> "none", customMessage |-> None] :
                    e \in ClassifiedErrors}
    /\ q = NoObservedQuery
    /\ theme = MountedTheme(None, "light")
    /\ repos = NoRepository
    /\ auth = InitialAuthStore(None)

ApplyParseError ==
    /\ call.fn = "parseError" /\ ~call.done
    /\ call' = [call EXCEPT !.done = TRUE, !.parsed = parseError(call.error),
                            !.via = "parseError"]
    /\ UNCHANGED <<server, cache, mut, toasts, now, req, q, theme, repos, auth>>

(* handleApiError(error): parse, show the toast, return the parsed error *)
ApplyHandleApiError ==
    /\ call.fn = "parseError" /\ ~call.done
    /\ call' = [call EXCEPT !.done = TRUE, !.parsed = parseError(call.error),
                            !.via = "handleApiError"]
    /\ toasts' = Append(toasts, handleApiError(call.error))
    /\ UNCHANGED <<server, cache, mut, now, req, q, theme, repos, auth>>

(* handleApiError(error, customMessage) *)
ApplyHandleApiErrorCustom ==
    /\ call.fn = "parseError" /\ ~call.done
    /\ \E customMessage \in CustomMessages \ {None} :
          /\ call' = [call EXCEPT !.done = TRUE, !.parsed = parseError(call.error),
                                  !.via = "handleApiError",
                                  !.customMessage = customMessage]
          /\ toasts' = Append(toasts, handleApiErrorCustom(call.error, customMessage))
    /\ UNCHANGED <<server, cache, mut, now, req, q, theme, repos, auth>>

(* handleNetworkError(error): parse, show the toast, return the parsed error *)
ApplyHandleNetworkError ==
    /\ call.fn = "parseError" /\ ~call.done
    /\ call' = [call EXCEPT !.done = TRUE, !.parsed = parseError(call.error),
                            !.via = "handleNetworkError"]
    /\ toasts' = Append(toasts, handleNetworkError(call.error))
    /\ UNCHANGED <<server, cache, mut, now, req, q, theme, repos, auth>>

NextClassify ==
    \/ ApplyParseError
    \/ ApplyHandleApiError
    \/ ApplyHandleApiErrorCustom
    \/ ApplyHandleNetworkError

SpecClassify == InitClassify /\ [][NextClassify]_vars

(* The message a payload carries: its message, else its error string, else *)
(* the message of its error object, else its first errors element          *)
PayloadMessage(data) ==
    IF ~IsSome(data) THEN ""
    ELSE LET d == Get(data) IN
         IF d.message.t = "string" THEN d.message.s
         ELSE IF d.error.t = "string" THEN d.error.s
         ELSE IF d.error.t = "object" THEN d.error.s
         ELSE IF d.errors # <<>> /\ d.errors[1].t \in {"string", "object"} THEN d.errors[1].s
         ELSE ""

(* The classification the rules give, in their order of priority; a network *)
(* failure is recognised by network(e)                                      *)
Classified(e, r, network(_)) ==
    IF e.kind = "ApiError" THEN
        /\ r.isAuthError = (e.status \in {401, 403})
        /\ ~r.isNetworkError
        /\ r.status = Some(e.status)
        /\ r.message = IF PayloadMessage(e.data) # "" THEN PayloadMessage(e.data)
                       ELSE IF e.status \in DOMAIN HTTP_ERROR_MESSAGES
                            THEN HTTP_ERROR_MESSAGES[e.status]
                       ELSE "Something went wrong. Please try again."
    ELSE IF network(e) THEN
        r = ParsedError("Network error. Please check your connection.", TRUE, FALSE, None)
    ELSE IF e = AbortError THEN
        r = ParsedError("Request was cancelled.", FALSE, FALSE, None)
    ELSE IF e.kind \in {"Error", "TypeError", "DOMException"} THEN
        r = ParsedError(IF e.message # "" THEN e.message
                        ELSE "Something went wrong. Please try again.", FALSE, FALSE, None)
    ELSE IF e.kind = "string" THEN
        r = ParsedError(e.message, FALSE, FALSE, None)
    ELSE r = ParsedError("Something went wrong. Please try again.", FALSE, FALSE, None)

IsNetworkFailure(e) == e \in NetworkFailures

(* C14: parseError classifies by the rules in their order of priority: an   *)
(* ApiError by status and payload, a network failure as a network error     *)
(* with the fixed message, a cancellation, a generic Error, a string, and   *)
(* the fallback.                                                            *)
C14_Classification ==
    (call.fn = "parseError" /\ call.done) =>
        Classified(call.error, call.parsed, IsNetworkFailure)

-----------------------------------------------------------------------------
(* api-client: request() *)

HttpMethod == {"GET", "POST", "PUT", "PATCH", "DELETE"}

(* env.API_BASE_URL: a configured URL, with its origin and path segments   *)
BaseUrl(text, origin, segs) == [text |-> text, origin |-> origin, segs |-> segs]

DEFAULT_API_URLS ==
    {BaseUrl("http://localhost:3000/api", "http://localhost:3000", <<"api">>),
     BaseUrl("https://staging-api.example.com", "https://staging-api.example.com", <<>>),
     BaseUrl("https://api.example.com", "https://api.example.com", <<>>)}

(* What getApiBaseUrl() may return: a default, or the custom URL of the    *)
(* app configuration                                                       *)
ApiBaseUrls ==
    DEFAULT_API_URLS
        \cup {BaseUrl("https://example.com/v1/", "https://example.com", <<"v1", "">>)}

(* The path argument: a relative reference with its segments, or an        *)
(* absolute URL                                                            *)
RequestPaths ==
    {[text |-> "/examples/1", http |-> FALSE, slash |-> TRUE, segs |-> <<"examples", "1">>],
     [text |-> "examples", http |-> FALSE, slash |-> FALSE, segs |-> <<"examples">>],
     [text |-> "https://other.example.com/v2/items", http |-> TRUE, slash |-> FALSE,
      segs |-> <<"v2", "items">>]}

(* The params option: name/value pairs, a value possibly undefined *)
RequestParams ==
    {None, Some(<<[key |-> "status", value |-> Some("active")],
                  [key |-> "search", value |-> None]>>)}

RECURSIVE JoinSegments(_)
JoinSegments(segs) ==
    IF segs = <<>> THEN ""
    ELSE IF Len(segs) = 1 THEN segs[1]
    ELSE segs[1] \o "/" \o JoinSegments(Tail(segs))

RECURSIVE SearchParams(_)
SearchParams(params) ==
    IF params = <<>> THEN ""
    ELSE LET rest == SearchParams(Tail(params)) IN
         IF ~IsSome(Head(params).value) THEN rest
         ELSE Head(params).key \o "=" \o Get(Head(params).value)
                \o (IF rest = "" THEN "" ELSE "&" \o rest)

Front(segs) == IF segs = <<>> THEN <<>> ELSE SubSeq(segs, 1, Len(segs) - 1)

(* A resolution that appends the reference to the whole base *)
ResolveUrl_Append(path, base) ==
    IF path.http THEN path.text
    ELSE base.origin \o "/"
            \o JoinSegments(SelectSeq(base.segs, LAMBDA x : x # "") \o path.segs)

(* new URL(path, base): an absolute URL stands as it is; a reference that  *)
(* begins with "/" replaces the path of the base; any other reference      *)
(* replaces the last segment of the path of the base                       *)
ResolveUrl(path, base) ==
    IF path.http THEN path.text
    ELSE IF path.slash THEN base.origin \o "/" \o JoinSegments(path.segs)
    ELSE base.origin \o "/" \o JoinSegments(Front(base.segs) \o path.segs)

buildUrl(path, params, base) ==
    LET url == ResolveUrl(path, base)
        search == IF IsSome(params) THEN SearchParams(Get(params)) ELSE ""
    IN  IF search = "" THEN url ELSE url \o "?" \o search

(* The headers option of the caller *)
CallerHeaders ==
    {None,
     Some("Authorization" :> "Bearer t"),
     Some("Accept" :> "text/csv"),
     Some("Content-Type" :> "text/plain")}

(* The body option: undefined, or a value (null included) *)
RequestBodies == {None, Some("{\"title\":\"B\"}"), Some("null")}

(* Headers that always declare a JSON body *)
requestHeaders_AlwaysContentType(headers, body) ==
    LET defaults == "Accept" :> "application/json"
        merged == IF IsSome(headers) THEN Spread(defaults, Get(headers)) ELSE defaults
    IN  Spread(merged, "Content-Type" :> "application/json")

(* { Accept: 'application/json', ...headers }, then Content-Type when a    *)
(* body is given                                                           *)
requestHeaders(headers, body) ==
    LET defaults == "Accept" :> "application/json"
        merged == IF IsSome(headers) THEN Spread(defaults, Get(headers)) ELSE defaults
    IN  IF IsSome(body) THEN Spread(merged, "Content-Type" :> "application/json")
        ELSE merged

(* A response: status, content-type header (or none), the text of the body *)
(* and what JSON.parse makes of it (None when it does not parse)           *)
Response(status, contentType, text, json) ==
    [status |-> status, contentType |-> contentType, text |-> text, json |-> json]

ResponseBodies ==
    {[text |-> "", json |-> None],
     [text |-> "{\"message\":\"Title is required\"}", json |-> Some("object")],
     [text |-> "Bad Gateway", json |-> None]}

ContentTypes ==
    {None, Some("application/json"), Some("application/json; charset=utf-8"),
     Some("application/problem+json"), Some("text/plain")}

ResponseStatuses == {200, 204, 299, 304, 404, 500}

Responses ==
    {Response(status, ct, b.text, b.json) :
        status \in ResponseStatuses, ct \in ContentTypes, b \in ResponseBodies}

(* A parse that takes every content type naming json *)
IncludesApplicationJson_AnyJson(contentType) ==
    IsSome(contentType)
        /\ Get(contentType) \in {"application/json", "application/json; charset=utf-8",
                                 "application/problem+json"}

(* contentType?.includes('application/json'), on the content types above *)
IncludesApplicationJson(contentType) ==
    IsSome(contentType)
        /\ Get(contentType) \in {"application/json", "application/json; charset=utf-8"}

JsonData(value) == [t |-> "json", v |-> value]
TextData(text) == [t |-> "text", v |-> text]
NullData == [t |-> "null", v |-> ""]

NoOutcome == [kind |-> "none", status |-> 0, data |-> NullData]

IdleCall(method, path, base, params, headers, body) ==
    [fn |-> "request", method |-> method, path |-> path, base |-> base,
     params |-> params, headers |-> headers, body |-> body,
     pc |-> "idle", fetches |-> 0, url |-> "", sent |-> <<>>, sentBody |-> None,
     response |-> None, outcome |-> NoOutcome]

RequestCalls ==
    {IdleCall(method, path, base, params, headers, body) :
        method \in HttpMethod, path \in RequestPaths, base \in ApiBaseUrls,
        params \in RequestParams, headers \in CallerHeaders, body \in RequestBodies}

(* request() up to its await: the URL and the headers are built and fetch  *)
(* is called                                                               *)
RequestFetch ==
    /\ call.fn = "request" /\ call.pc = "idle"
    /\ call' = [call EXCEPT !.pc = "fetching", !.fetches = @ + 1,
                            !.url = buildUrl(call.path, call.params, call.base),
                            !.sent = requestHeaders(call.headers, call.body),
                            !.sentBody = call.body]
    /\ UNCHANGED <<server, cache, mut, toasts, now, req, q, theme, repos, auth>>

(* fetch resolves with a response: the body is read, then the status is    *)
(* tested                                                                  *)
RequestResponds(response) ==
    /\ call.fn = "request" /\ call.pc = "fetching"
    /\ LET isJson == IncludesApplicationJson(response.contentType)
           data == IF isJson THEN JsonData(IF IsSome(response.json) THEN Get(response.json) ELSE "")
                   ELSE IF response.text = "" THEN NullData
                   ELSE TextData(response.text)
           ok == response.status >= 200 /\ response.status <= 299
           outcome ==
               IF isJson /\ ~IsSome(response.json)
               THEN [kind |-> "SyntaxError", status |-> 0, data |-> NullData]
               ELSE IF ~ok
               THEN [kind |-> "ApiError", status |-> response.status, data |-> data]
               ELSE [kind |-> "return", status |-> response.status, data |-> data]
       IN  call' = [call EXCEPT !.pc = "done", !.response = Some(response),
                                !.outcome = outcome]
    /\ UNCHANGED <<server, cache, mut, toasts, now, req, q, theme, repos, auth>>

(* fetch rejects: no response was obtained *)
RequestRejects ==
    /\ call.fn = "request" /\ call.pc = "fetching"
    /\ call' = [call EXCEPT !.pc = "done",
                            !.outcome = [kind |-> "TypeError", status |-> 0,
                                         data |-> NullData]]
    /\ UNCHANGED <<server, cache, mut, toasts, now, req, q, theme, repos, auth>>

InitApi ==
    /\ server = [id \in Ids |->
                    Some(Example(id, "A", IF id = "1" THEN "draft" ELSE "active", 0))]
    /\ cache = [k \in QueryKeys |-> NoQuery]
    /\ mut = [m \in Muts |-> IdleMutation]
    /\ toasts = <<>>
    /\ now = 0
    /\ req = IdleRequest
    /\ call \in RequestCalls
    /\ q = NoObservedQuery
    /\ theme = MountedTheme(None, "light")
    /\ repos = NoRepository
    /\ auth = InitialAuthStore(None)

NextApi ==
    \/ RequestFetch
    \/ \E response \in Responses : RequestResponds(response)
    \/ RequestRejects

SpecApi == InitApi /\ [][NextApi]_vars

IsSuccessStatus(status) == status >= 200 /\ status <= 299

Responded == call.fn = "request" /\ call.pc = "done" /\ IsSome(call.response)

(* C15: request() returns the parsed response exactly when the status of   *)
(* the response is in 200..299; for every other status it raises an        *)
(* ApiError that carries that status and the parsed body; and an           *)
(* invocation calls fetch exactly once, without a retry.                   *)
C15_HttpOutcome ==
    (call.fn = "request" /\ call.pc = "done") =>
        /\ call.fetches = 1
        /\ IsSome(call.response) =>
            LET response == Get(call.response) IN
            /\ call.outcome.kind = "return" <=> IsSuccessStatus(response.status)
            /\ ~IsSuccessStatus(response.status) =>
                /\ call.outcome.kind = "ApiError"
                /\ call.outcome.status = response.status

(* The part of C15 that holds: one fetch per invocation, and the status    *)
(* decides the outcome whenever the body could be read.                    *)
C15_OutcomeWhenBodyReadable ==
    (call.fn = "request" /\ call.pc = "done") =>
        /\ call.fetches = 1
        /\ (IsSome(call.response) /\ call.outcome.kind # "SyntaxError") =>
            LET response == Get(call.response) IN
            /\ call.outcome.kind = "return" <=> IsSuccessStatus(response.status)
            /\ ~IsSuccessStatus(response.status) =>
                /\ call.outcome.kind = "ApiError"
                /\ call.outcome.status = response.status

QueryString(params) ==
    LET search == IF IsSome(params) THEN SearchParams(Get(params)) ELSE ""
    IN  IF search = "" THEN "" ELSE "?" \o search

(* C16: for every relative path the URL requested is the whole configured  *)
(* API_BASE_URL, any path prefix it has included, with the path appended;  *)
(* an absolute URL is requested as given, without the base URL.            *)
C16_BaseUrl ==
    (call.fn = "request" /\ call.pc # "idle") =>
        call.url = ResolveUrl_Append(call.path, call.base) \o QueryString(call.params)

(* The part of C16 that holds: an absolute URL is requested as given, and  *)
(* under a base URL without a path a relative path is appended to it.      *)
C16_BaseUrlWithoutPath ==
    (call.fn = "request" /\ call.pc # "idle" /\ (call.path.http \/ call.base.segs = <<>>)) =>
        call.url = ResolveUrl_Append(call.path, call.base) \o QueryString(call.params)

TextOrNull(text) == IF text = "" THEN NullData ELSE TextData(text)

(* C17: a response is parsed as JSON whenever its content type contains    *)
(* "json" (application/json with a charset, application/problem+json);     *)
(* otherwise the raw text is returned, an empty text as null.              *)
C17_ParseAnyJson ==
    Responded =>
        LET response == Get(call.response)
            json == IsSome(response.contentType)
                      /\ Get(response.contentType) \in
                            {"application/json", "application/json; charset=utf-8",
                             "application/problem+json"}
        IN  /\ (json /\ IsSome(response.json)) =>
                    call.outcome.data = JsonData(Get(response.json))
            /\ ~json => call.outcome.data = TextOrNull(response.text)

(* C17, amended: a response is parsed as JSON whenever its content type    *)
(* contains "application/json" (a charset parameter allowed); any other    *)
(* content type, application/problem+json included, and a missing one give *)
(* the raw text, an empty text as null.                                    *)
C17_ParseApplicationJson ==
    Responded =>
        LET response == Get(call.response)
            json == IsSome(response.contentType)
                      /\ Get(response.contentType) \in
                            {"application/json", "application/json; charset=utf-8"}
        IN  /\ (json /\ IsSome(response.json)) =>
                    /\ call.outcome.kind \in {"return", "ApiError"}
                    /\ call.outcome.data = JsonData(Get(response.json))
            /\ ~json =>
                    /\ call.outcome.kind \in {"return", "ApiError"}
                    /\ call.outcome.data = TextOrNull(response.text)

C17_Witness ==
    /\ Responded
    /\ Get(call.response).contentType = Some("application/problem+json")
    /\ IsSome(Get(call.response).json)
    /\ call.outcome.kind = "ApiError"
    /\ call.outcome.data = TextData(Get(call.response).text)

Header(headers, name) == IF name \in DOMAIN headers THEN Some(headers[name]) ELSE None

CallerHeader(name) ==
    IF IsSome(call.headers) THEN Header(Get(call.headers), name) ELSE None

(* C18: for every method and every headers map of the caller, the headers  *)
(* sent include Accept: application/json, and Content-Type:                *)
(* application/json is among them exactly when a body is given.            *)
C18_Headers ==
    (call.fn = "request" /\ call.pc # "idle") =>
        /\ Header(call.sent, "Accept") = Some("application/json")
        /\ Header(call.sent, "Content-Type") = Some("application/json") <=> IsSome(call.body)

(* C18, amended: Accept is application/json unless the caller's headers    *)
(* give an Accept, which is then sent; Content-Type is application/json    *)
(* whenever a body is given (null included), whatever the caller gave, and *)
(* without a body it is the caller's Content-Type if there is one and is   *)
(* absent otherwise; every other header of the caller is sent as given.    *)
C18_HeadersWithOverride ==
    (call.fn = "request" /\ call.pc # "idle") =>
        /\ Header(call.sent, "Accept") =
              (IF IsSome(CallerHeader("Accept")) THEN CallerHeader("Accept")
               ELSE Some("application/json"))
        /\ Header(call.sent, "Content-Type") =
              (IF IsSome(call.body) THEN Some("application/json")
               ELSE CallerHeader("Content-Type"))
        /\ Header(call.sent, "Authorization") = CallerHeader("Authorization")
        /\ call.sentBody = call.body

C18_Witness ==
    /\ call.fn = "request" /\ call.pc = "fetching"
    /\ call.method = "POST"
    /\ call.body = Some("null")
    /\ CallerHeader("Content-Type") = Some("text/plain")
    /\ Header(call.sent, "Content-Type") = Some("application/json")
    /\ Header(call.sent, "Accept") = Some("application/json")

-----------------------------------------------------------------------------
(* The specification of ThemeProvider *)

InitTheme ==
    /\ server = [id \in Ids |->
                    Some(Example(id, "A", IF id = "1" THEN "draft" ELSE "active", 0))]
    /\ cache = [k \in QueryKeys |-> NoQuery]
    /\ mut = [m \in Muts |-> IdleMutation]
    /\ toasts = <<>>
    /\ now = 0
    /\ req = IdleRequest
    /\ call = NoCall
    /\ q = NoObservedQuery
    /\ \E stored \in StoredValues, systemColorScheme \in SystemSchemes :
            theme = MountedTheme(stored, systemColorScheme)
    /\ repos = NoRepository
    /\ auth = InitialAuthStore(None)

NextTheme ==
    \/ LoadThemePreference
    \/ LoadThemePreferenceFails
    \/ \E mode \in ThemeModes : SetThemeMode(mode)
    \/ \E i \in 1..MaxWrites : SetItemResolves(i)
    \/ \E i \in 1..MaxWrites : SetItemRejects(i)
    \/ \E scheme \in SystemSchemes : SystemColorSchemeChanges(scheme)

SpecTheme == InitTheme /\ [][NextTheme]_vars

(* C19: in every state of ThemeProvider the effective colorScheme is       *)
(* themeMode when themeMode is light or dark, and the scheme the system    *)
(* reports now when themeMode is system, light when the system reports     *)
(* neither; isDark is true exactly when colorScheme is dark; and a stored  *)
(* value other than light, dark or system is ignored on load and leaves    *)
(* themeMode at system.                                                    *)
C19_ThemeResolution ==
    /\ theme.context.themeMode = theme.themeMode
    /\ theme.themeMode \in {"light", "dark"} =>
            theme.context.colorScheme = theme.themeMode
    /\ theme.themeMode = "system" =>
            theme.context.colorScheme =
                (IF theme.systemColorScheme \in {"light", "dark"}
                 THEN theme.systemColorScheme ELSE "light")
    /\ theme.context.isDark <=> theme.context.colorScheme = "dark"
    /\ theme.isLoaded => theme.nativewind = Some(theme.context.colorScheme)
    /\ (theme.isLoaded /\ ~theme.touched
          /\ IsSome(theme.loaded) /\ Get(theme.loaded) \notin {"light", "dark", "system"}) =>
            theme.themeMode = "system"

C19_Witness ==
    /\ theme.isLoaded /\ ~theme.touched
    /\ theme.loaded = Some("blue")
    /\ theme.themeMode = "system"
    /\ theme.systemColorScheme = "dark"
    /\ theme.context.colorScheme = "dark"
    /\ theme.context.isDark

(* C20: every change of the raw preference through setThemeMode is stored  *)
(* under the theme key before it is visible in memory; and when the write  *)
(* fails the failure is only logged, nothing is raised, and themeMode in   *)
(* memory keeps the new value.                                             *)
C20_PersistBeforeCommit ==
    [][/\ (theme.isLoaded /\ theme'.themeMode # theme.themeMode) =>
                theme'.stored = Some(theme'.themeMode)
       /\ (theme.writes # <<>> /\ Len(theme'.writes) = Len(theme.writes) - 1
             /\ theme'.stored = theme.stored /\ theme'.warnings = 1) =>
                /\ ~theme'.raised
                /\ theme'.themeMode = theme.themeMode]_vars

(* The part of C20 that holds: a failed write is only logged, and          *)
(* themeMode in memory is what the last setThemeMode set.                  *)
C20_FailureOnlyLogged ==
    [][(theme.writes # <<>> /\ Len(theme'.writes) = Len(theme.writes) - 1
          /\ theme'.stored = theme.stored /\ theme'.warnings = 1) =>
            /\ ~theme'.raised
            /\ theme'.themeMode = theme.themeMode
            /\ theme'.context.themeMode = theme.themeMode]_vars

(* The effect that loads the preference runs once on mount and the read of *)
(* the storage settles: the load is not postponed for ever                 *)
SpecThemeLoads ==
    InitTheme /\ [][NextTheme]_vars
        /\ WF_vars(LoadThemePreference \/ LoadThemePreferenceFails)

(* C21: while the stored preference has not been loaded ThemeProvider      *)
(* renders no children and hands no color scheme to NativeWind; isLoaded   *)
(* becomes true at last, whether the read gives a valid value, an invalid  *)
(* one, none, or fails; and once true it stays true.                       *)
C21_LoadGate ==
    /\ [](~theme.isLoaded => (~theme.children /\ theme.nativewind = None))
    /\ <>theme.isLoaded
    /\ [][theme.isLoaded => theme'.isLoaded]_vars

C21_Witness ==
    /\ theme.isLoaded /\ theme.children
    /\ theme.warnings = 1 /\ ~theme.touched
    /\ theme.stored = Some("dark")
    /\ theme.themeMode = "system"
    /\ IsSome(theme.nativewind)

-----------------------------------------------------------------------------
(* Validation schemas (zod) *)

MaxPad == 1

(* Strings are sequences of characters *)
UpperCase == {"A", "B"}
LowerCase == {"a", "b", "c", "d", "e", "f"}
Digits == {"1", "2"}
Letters == UpperCase \cup LowerCase
Whitespace == {" "}

validationMessages ==
    [email |-> [invalid |-> "Please enter a valid email address",
                required |-> "Email is required"],
     password |-> [required |-> "Password is required",
                   minLength |-> "Password must be at least 8 characters",
                   maxLength |-> "Password must be no more than 128 characters",
                   uppercase |-> "Password must contain at least one uppercase letter",
                   lowercase |-> "Password must contain at least one lowercase letter",
                   number |-> "Password must contain at least one number",
                   special |-> "Password must contain at least one special character"],
     name |-> [required |-> "Name is required",
               minLength |-> "Name must be at least 2 characters",
               maxLength |-> "Name must be no more than 100 characters"],
     confirmPassword |-> [mismatch |-> "Passwords do not match"]]

(* String.prototype.toLowerCase and String.prototype.trim *)
toLowerCase(str) ==
    [i \in DOMAIN str |->
        IF str[i] = "A" THEN "a" ELSE IF str[i] = "B" THEN "b" ELSE str[i]]

RECURSIVE trimStart(_)
trimStart(str) ==
    IF str # <<>> /\ Head(str) \in Whitespace THEN trimStart(Tail(str)) ELSE str

RECURSIVE trimEnd(_)
trimEnd(str) ==
    IF str # <<>> /\ str[Len(str)] \in Whitespace
    THEN trimEnd(SubSeq(str, 1, Len(str) - 1)) ELSE str

trim(str) == trimEnd(trimStart(str))

(* The pattern of z.string().email(): a local part of letters, digits and  *)
(* dots that neither begins nor ends with a dot, "@", labels of letters    *)
(* and digits each followed by a dot, and a last label of two or more      *)
(* letters; no two dots in a row anywhere                                  *)
IsEmail(str) ==
    \E at \in DOMAIN str :
        /\ str[at] = "@"
        /\ at > 1
        /\ \A i \in 1..(at - 1) : str[i] \in Letters \cup Digits \cup {"."}
        /\ str[1] # "." /\ str[at - 1] # "."
        /\ \A i \in 1..(Len(str) - 1) : ~(str[i] = "." /\ str[i + 1] = ".")
        /\ \E dot \in (at + 2)..(Len(str) - 2) :
              /\ str[dot] = "."
              /\ \A i \in (dot + 1)..Len(str) : str[i] \in Letters
              /\ \A i \in (at + 1)..(dot - 1) : str[i] \in Letters \cup Digits \cup {"."}
              /\ str[at + 1] # "."

(* The checks of a string schema, in the order the schema chains them *)
MinLength(n, message) == [check |-> "min", n |-> n, message |-> message]
MaxLength(n, message) == [check |-> "max", n |-> n, message |-> message]
Email(message) == [check |-> "email", n |-> 0, message |-> message]
Regex(class, message) == [check |-> class, n |-> 0, message |-> message]
ToLowerCase == [check |-> "toLowerCase", n |-> 0, message |-> ""]
Trim == [check |-> "trim", n |-> 0, message |-> ""]

emailSchema ==
    <<MinLength(1, validationMessages.email.required),
      Email(validationMessages.email.invalid),
      ToLowerCase,
      Trim>>

strongPasswordSchema ==
    <<MinLength(1, validationMessages.password.required),
      MinLength(8, validationMessages.password.minLength),
      MaxLength(128, validationMessages.password.maxLength),
      Regex("uppercase", validationMessages.password.uppercase),
      Regex("lowercase", validationMessages.password.lowercase),
      Regex("number", validationMessages.password.number),
      Regex("special", validationMessages.password.special)>>

nameSchema ==
    <<MinLength(1, validationMessages.name.required),
      MinLength(2, validationMessages.name.minLength),
      MaxLength(100, validationMessages.name.maxLength),
      Trim>>

requiredString(minLength, maxLength) ==
    <<MinLength(1, "This field is required"),
      MinLength(minLength, "This field must be at least " \o ToString(minLength)
                                \o " characters"),
      MaxLength(maxLength, "This field must be no more than " \o ToString(maxLength)
                                \o " characters"),
      Trim>>

confirmPasswordSchema == <<MinLength(1, "Please confirm your password")>>

(* Whether a value passes one check *)
Passes(ch, str) ==
    CASE ch.check = "min" -> Len(str) >= ch.n
      [] ch.check = "max" -> Len(str) <= ch.n
      [] ch.check = "email" -> IsEmail(str)
      [] ch.check = "uppercase" -> \E i \in DOMAIN str : str[i] \in UpperCase
      [] ch.check = "lowercase" -> \E i \in DOMAIN str : str[i] \in LowerCase
      [] ch.check = "number" -> \E i \in DOMAIN str : str[i] \in Digits
      [] ch.check = "special" -> \E i \in DOMAIN str : str[i] \notin Letters \cup Digits
      [] OTHER -> TRUE

Issue(path, code, message, continue) ==
    [path |-> path, code |-> code, message |-> message, continue |-> continue]

(* The checks run one after the other on the value as it then is: a    *)
(* failed check adds an issue and lets the next ones run, trim and     *)
(* toLowerCase overwrite the value for the checks that follow them     *)
RECURSIVE runChecks(_, _)
runChecks(payload, checks) ==
    IF checks = <<>> THEN payload
    ELSE LET ch == Head(checks)
             next ==
                CASE ch.check = "trim" -> [payload EXCEPT !.value = trim(@)]
                  [] ch.check = "toLowerCase" -> [payload EXCEPT !.value = toLowerCase(@)]
                  [] OTHER ->
                        IF Passes(ch, payload.value) THEN payload
                        ELSE [payload EXCEPT !.issues =
                                Append(@, Issue("", ch.check, ch.message, TRUE))]
         IN  runChecks(next, Tail(checks))

(* z.string() with its checks: a value that is not a string is an issue *)
(* that stops the checks                                                *)
ParseString(input, checks) ==
    IF ~IsSome(input)
    THEN [value |-> <<>>,
          issues |-> <<Issue("", "invalid_type",
                             "Invalid input: expected string, received undefined", FALSE)>>]
    ELSE runChecks([value |-> Get(input), issues |-> <<>>], checks)

(* The result of safeParse *)
Result(payload) ==
    [success |-> payload.issues = <<>>, data |-> payload.value, issues |-> payload.issues]

prefixIssues(path, issues) == [i \in DOMAIN issues |-> [issues[i] EXCEPT !.path = path]]

(* A refinement that blames the first field *)
confirmPasswordRefinement_OnPassword(data) ==
    IF data.password = data.confirmPassword THEN <<>>
    ELSE <<Issue("password", "custom", validationMessages.confirmPassword.mismatch, TRUE)>>

(* .refine(data => data.password === data.confirmPassword,                 *)
(*         { message: mismatch, path: ['confirmPassword'] })               *)
confirmPasswordRefinement(data) ==
    IF data.password = data.confirmPassword THEN <<>>
    ELSE <<Issue("confirmPassword", "custom",
                 validationMessages.confirmPassword.mismatch, TRUE)>>

(* signupSchema: the three fields are parsed, then the refinement runs     *)
(* unless an issue that does not continue was raised                       *)
signupSchema(input) ==
    LET email == ParseString(input.email, emailSchema)
        password == ParseString(input.password, strongPasswordSchema)
        confirmPassword == ParseString(input.confirmPassword, confirmPasswordSchema)
        data == [email |-> email.value, password |-> password.value,
                 confirmPassword |-> confirmPassword.value]
        issues == prefixIssues("email", email.issues)
                    \o prefixIssues("password", password.issues)
                    \o prefixIssues("confirmPassword", confirmPassword.issues)
        aborted == \E i \in DOMAIN issues : ~issues[i].continue
    IN  [value |-> data,
         issues |-> IF aborted THEN issues ELSE issues \o confirmPasswordRefinement(data)]

(* Inputs: strings with up to MaxPad spaces on either side, or undefined *)
Spaces(n) == [i \in 1..n |-> " "]

Padded(cores) ==
    {Spaces(l) \o core \o Spaces(r) : core \in cores, l \in 0..MaxPad, r \in 0..MaxPad}

EmailInputs ==
    {None} \cup {Some(str) : str \in
        Padded({<<>>, <<"a", "b">>, <<"a", "@", "b", ".", "c", "d">>,
                <<"A", "@", "B", ".", "c", "d">>, <<"a", "@", "b">>,
                <<"a", ".", "@", "b", ".", "c", "d">>})}

TextInputs ==
    {None} \cup {Some(str) : str \in
        Padded({<<>>, <<"a">>, <<"a", "b">>, <<"a", " ", "b">>, <<"a", "b", "c", "d">>})}

PasswordInputs ==
    {None, Some(<<>>), Some(<<"a", "b", "c">>),
     Some(<<"A", "b", "c", "d", "e", "f", "1", "!">>),
     Some(<<"A", "b", "c", "d", "e", "f", "1", "?">>)}

SignupInputs ==
    {[email |-> email, password |-> password, confirmPassword |-> confirmPassword] :
        email \in {None, Some(<<"a", "b">>), Some(<<"A", "@", "b", ".", "c", "d">>)},
        password \in PasswordInputs, confirmPassword \in PasswordInputs}

NoForm == [email |-> None, password |-> None, confirmPassword |-> None]

SchemaCall(schema, args, input, form) ==
    [fn |-> "safeParse", schema |-> schema, args |-> args, input |-> input,
     form |-> form, result |-> None]

SchemaCalls ==
    {SchemaCall("emailSchema", <<>>, input, NoForm) : input \in EmailInputs}
        \cup {SchemaCall("nameSchema", <<>>, input, NoForm) : input \in TextInputs}
        \cup {SchemaCall("requiredString", <<minLength, maxLength>>, input, NoForm) :
                minLength \in {1, 2}, maxLength \in {3, 500}, input \in TextInputs}
        \cup {SchemaCall("signupSchema", <<>>, None, form) : form \in SignupInputs}

ParseEmail ==
    /\ call.fn = "safeParse" /\ call.schema = "emailSchema" /\ call.result = None
    /\ call' = [call EXCEPT !.result = Some(Result(ParseString(call.input, emailSchema)))]
    /\ UNCHANGED <<server, cache, mut, toasts, now, req, q, theme, repos, auth>>

ParseName ==
    /\ call.fn = "safeParse" /\ call.schema = "nameSchema" /\ call.result = None
    /\ call' = [call EXCEPT !.result = Some(Result(ParseString(call.input, nameSchema)))]
    /\ UNCHANGED <<server, cache, mut, toasts, now, req, q, theme, repos, auth>>

ParseRequiredString ==
    /\ call.fn = "safeParse" /\ call.schema = "requiredString" /\ call.result = None
    /\ call' = [call EXCEPT !.result =
                  Some(Result(ParseString(call.input,
                                          requiredString(call.args[1], call.args[2]))))]
    /\ UNCHANGED <<server, cache, mut, toasts, now, req, q, theme, repos, auth>>

ParseSignup ==
    /\ call.fn = "safeParse" /\ call.schema = "signupSchema" /\ call.result = None
    /\ call' = [call EXCEPT !.result = Some(Result(signupSchema(call.form)))]
    /\ UNCHANGED <<server, cache, mut, toasts, now, req, q, theme, repos, auth>>

InitSchemas ==
    /\ server = [id \in Ids |->
                    Some(Example(id, "A", IF id = "1" THEN "draft" ELSE "active", 0))]
    /\ cache = [k \in QueryKeys |-> NoQuery]
    /\ mut = [m \in Muts |-> IdleMutation]
    /\ toasts = <<>>
    /\ now = 0
    /\ req = IdleRequest
    /\ call \in SchemaCalls
    /\ q = NoObservedQuery
    /\ theme = MountedTheme(None, "light")
    /\ repos = NoRepository
    /\ auth = InitialAuthStore(None)

NextSchemas == ParseEmail \/ ParseName \/ ParseRequiredString \/ ParseSignup

SpecSchemas == InitSchemas /\ [][NextSchemas]_vars

Parsed(schema) == call.fn = "safeParse" /\ call.schema = schema /\ IsSome(call.result)

MismatchIssues(result) ==
    {i \in DOMAIN result.issues :
        result.issues[i].message = validationMessages.confirmPassword.mismatch}

SingleMismatchOnConfirm(result) ==
    /\ ~result.success
    /\ Cardinality(MismatchIssues(result)) = 1
    /\ \A i \in MismatchIssues(result) : result.issues[i].path = "confirmPassword"

(* C22: every signup input whose password and confirmPassword differ is    *)
(* rejected with a single mismatch error, on the path confirmPassword and  *)
(* never on password, whether or not password passes its own rules.        *)
C22_Mismatch ==
    (Parsed("signupSchema") /\ call.form.password # call.form.confirmPassword) =>
        SingleMismatchOnConfirm(Get(call.result))

(* C22, amended: the same for every signup input whose three fields are    *)
(* strings; when a field is not a string (undefined) the input is rejected *)
(* with the type error of that field and no mismatch error.                *)
C22_MismatchOfStrings ==
    Parsed("signupSchema") =>
        LET form == call.form
            result == Get(call.result)
            strings == IsSome(form.email) /\ IsSome(form.password)
                          /\ IsSome(form.confirmPassword)
        IN  /\ (strings /\ form.password # form.confirmPassword) =>
                    SingleMismatchOnConfirm(result)
            /\ (strings /\ form.password = form.confirmPassword) =>
                    MismatchIssues(result) = {}
            /\ ~strings => (~result.success /\ MismatchIssues(result) = {})

C22_Witness ==
    /\ Parsed("signupSchema")
    /\ call.form.email = Some(<<"A", "@", "b", ".", "c", "d">>)
    /\ call.form.password = Some(<<"a", "b", "c">>)
    /\ call.form.confirmPassword = Some(<<"A", "b", "c", "d", "e", "f", "1", "!">>)
    /\ SingleMismatchOnConfirm(Get(call.result))
    /\ \E i \in DOMAIN Get(call.result).issues :
            Get(call.result).issues[i].path = "password"

SchemaOf(c) ==
    CASE c.schema = "emailSchema" -> emailSchema
      [] c.schema = "nameSchema" -> nameSchema
      [] OTHER -> requiredString(c.args[1], c.args[2])

(* The value a field is normalized to, and whether a value meets the rules *)
Normalized(c, str) == IF c.schema = "emailSchema" THEN toLowerCase(trim(str)) ELSE trim(str)

MeetsRules(checks, str) == \A i \in DOMAIN checks : Passes(checks[i], str)

ParsedString ==
    /\ call.fn = "safeParse" /\ call.schema # "signupSchema"
    /\ IsSome(call.result) /\ IsSome(call.input)

(* C23: string fields are trimmed, and the email lower-cased, before their *)
(* rules are applied: an input is accepted exactly when its normalized     *)
(* value meets the rules, and the value it then yields is the normalized   *)
(* one.                                                                    *)
C23_NormalizedBeforeValidation ==
    ParsedString =>
        LET result == Get(call.result)
            normalized == Normalized(call, Get(call.input))
        IN  /\ result.success <=> MeetsRules(SchemaOf(call), normalized)
            /\ result.success => result.data = normalized

(* What holds instead: the rules are applied to the input as typed, and an *)
(* accepted input yields its normalized value.                             *)
C23_NormalizedAfterValidation ==
    ParsedString =>
        LET result == Get(call.result)
        IN  /\ result.success <=> MeetsRules(SchemaOf(call), Get(call.input))
            /\ result.success => result.data = Normalized(call, Get(call.input))

-----------------------------------------------------------------------------
(* The specification of the mock repositories: one instance of one of the  *)
(* six classes, and any sequence of its operations                         *)

InitRepositories ==
    /\ server = [id \in Ids |->
                    Some(Example(id, "A", IF id = "1" THEN "draft" ELSE "active", 0))]
    /\ cache = [k \in QueryKeys |-> NoQuery]
    /\ mut = [m \in Muts |-> IdleMutation]
    /\ toasts = <<>>
    /\ now = 0
    /\ req = IdleRequest
    /\ call = NoCall
    /\ q = NoObservedQuery
    /\ theme = MountedTheme(None, "light")
    /\ \E kind \in RepositoryKinds : repos = NewRepository(kind)
    /\ auth = InitialAuthStore(None)

NextRepositories ==
    \/ \E collection \in Collections, data \in CreateData : DbCreate(collection, data)
    \/ \E collection \in Collections, id \in AskedIds : DbRead(collection, id)
    \/ \E collection \in Collections, id \in AskedIds, data \in UpdateData :
            DbUpdate(collection, id, data)
    \/ \E collection \in Collections, id \in AskedIds : DbDelete(collection, id)
    \/ \E collection \in Collections, options \in QueryOptions : DbList(collection, options)
    \/ \E path \in Paths : StorageUpload(path)
    \/ \E path \in Paths : StorageDownload(path)
    \/ \E path \in Paths : StorageDelete(path)
    \/ \E path \in Paths : StorageGetUrl(path)
    \/ \E userId \in UserIds : UserGetProfile(userId)
    \/ \E userId \in UserIds, data \in UpdateProfileData : UserUpdateProfile(userId, data)
    \/ \E userId \in UserIds : UserDeleteAccount(userId)
    \/ \E op \in {"signIn", "signUp"}, email \in Emails : AuthSign(op, email)
    \/ AuthSignOut
    \/ AuthGetCurrentUser
    \/ AuthResetPassword
    \/ \E op \in {"track", "identify", "screen", "reset"} : AnalyticsCall(op)
    \/ NotificationRegister
    \/ NotificationUnregister
    \/ NotificationGetToken
    \/ \E handler \in MessageHandlers : NotificationOnMessage(handler)
    \/ \E handler \in MessageHandlers : NotificationUnsubscribe(handler)

SpecRepositories == InitRepositories /\ [][NextRepositories]_vars

ReadOperations == {"read", "getProfile", "getCurrentUser", "download"}

(* C24: no operation of a mock repository fails except with "not found",   *)
(* and the reads (read, getProfile, getCurrentUser, download) report an    *)
(* absent entity as an absent value and never raise it.                    *)
C24_MocksNeverFail ==
    /\ repos.last.outcome = "rejected" =>
            /\ repos.last.op \in {"update", "download"}
            /\ repos.last.message \in
                    {"Entity not found: " \o id : id \in AskedIds}
                        \cup {"File not found: " \o path : path \in Paths}
    /\ repos.last.op \in ReadOperations => repos.last.outcome = "resolved"

(* The part of C24 that holds: the only failures are "not found", of       *)
(* update and of download, and read, getProfile and getCurrentUser give    *)
(* null for an absent entity.                                              *)
C24_OnlyNotFound ==
    /\ repos.last.outcome = "rejected" =>
            \/ /\ repos.last.op = "update" /\ repos.repo = "database"
               /\ ~IsSome(DbGet(repos, repos.asked.collection, repos.asked.id))
               /\ repos.last.message = "Entity not found: " \o repos.asked.id
            \/ /\ repos.last.op = "download" /\ repos.repo = "storage"
               /\ ~IsSome(repos.storage[repos.asked.id])
               /\ repos.last.message = "File not found: " \o repos.asked.id
    /\ repos.last.op \in ReadOperations \ {"download"} => repos.last.outcome = "resolved"
    /\ (repos.last.op = "read"
          /\ ~IsSome(DbGet(repos, repos.asked.collection, repos.asked.id))) =>
            repos.last.kind = "null"

-----------------------------------------------------------------------------
(* The specification of two mutations of example "1" whose lifetimes may   *)
(* overlap, over a cache that holds the detail and the unfiltered list     *)

Overlapping == {1, 2}

Fetched(key) == [data |-> queryFn(key), fetching |-> FALSE, invalidated |-> FALSE]

InitOverlap ==
    /\ server = [id \in Ids |->
                    Some(Example(id, "A", IF id = "1" THEN "draft" ELSE "active", 0))]
    /\ cache = [k \in QueryKeys |-> IF k \in UsedKeys THEN Fetched(k) ELSE NoQuery]
    /\ mut = [m \in Overlapping |-> IdleMutation]
    /\ toasts = <<>>
    /\ now = 0
    /\ req = IdleRequest
    /\ call = NoCall
    /\ q = NoObservedQuery
    /\ theme = MountedTheme(None, "light")
    /\ repos = NoRepository
    /\ auth = InitialAuthStore(None)

NextOverlap ==
    \/ \E m \in Overlapping, data \in UpdateExampleInput, t \in 0..MaxTime :
            UpdateOnMutate(m, "1", data, t)
    \/ \E m \in Overlapping : MutationFn(m)
    \/ \E m \in Overlapping : UpdateOnSuccess(m)
    \/ \E m \in Overlapping, error \in WriteErrors : UpdateOnError(m, error)
    \/ \E m \in Overlapping, active \in {{}, UsedKeys} : UpdateOnSettled(m, active)
    \/ \E m \in Overlapping : DeleteOnMutate(m, "1")
    \/ \E m \in Overlapping : DeleteOnSuccess(m)
    \/ \E m \in Overlapping, error \in WriteErrors : DeleteOnError(m, error)
    \/ \E m \in Overlapping, active \in {{}, UsedKeys} : DeleteOnSettled(m, active)

SpecOverlap == InitOverlap /\ [][NextOverlap]_vars

(* Both mutations have failed and their onError has run *)
BothRolledBack ==
    /\ \A m \in DOMAIN mut : mut[m].pc \in {"failed", "settled"}
    /\ Len(toasts) = 2
    /\ \A i \in DOMAIN toasts : toasts[i].severity = "error"

(* C25: when two optimistic mutations of the same id overlap and both      *)
(* fail, then once both onError have run the detail and the list in the    *)
(* cache are what they were before the first mutation started.             *)
C25_OverlappingRollbacks ==
    BothRolledBack =>
        \A key \in UsedKeys : cache[key].data = queryFn(key)

(* Every write of setThemeMode has completed and none has failed *)
AllWritesSucceeded ==
    theme.isLoaded /\ theme.touched /\ theme.writes = <<>> /\ ~theme.failed

(* C26: when the writes of a sequence of setThemeMode calls all succeed,   *)
(* in whatever order they complete, then once all have completed the value *)
(* stored under the theme key is the themeMode in memory, the mode of the  *)
(* last call.                                                              *)
C26_ThemeConvergence ==
    AllWritesSucceeded => theme.stored = Some(theme.themeMode)

(* The part of C26 that holds: the stored value is the mode in memory when *)
(* the writes complete in the order of the calls.                          *)
C26_ConvergenceInOrder ==
    (AllWritesSucceeded /\ ~theme.reordered) => theme.stored = Some(theme.themeMode)

(* The onMutate of a delete of id runs in this step, over a cached list *)
DeleteMutates(m, id) ==
    /\ mut[m].pc = "idle" /\ mut'[m].pc = "mutated"
    /\ mut'[m].kind = "delete" /\ mut'[m].id = id
    /\ IsSome(cache[list(NoParams)].data)

Surplus(c) ==
    Get(c[list(NoParams)].data).total - Len(Get(c[list(NoParams)].data).data)

InList(c, id) ==
    \E i \in DOMAIN Get(c[list(NoParams)].data).data :
        Get(c[list(NoParams)].data).data[i].id = id

(* C27: an optimistic delete changes the total of the cached list by the   *)
(* number of items it removes from its data, so total - |data| is the same *)
(* before and after, whether or not the id is in the cached list, and the  *)
(* total never becomes negative.                                           *)
C27_TotalConsistency ==
    [][\A m \in DOMAIN mut, id \in Ids :
          DeleteMutates(m, id) =>
              /\ Surplus(cache') = Surplus(cache)
              /\ Get(cache'[list(NoParams)].data).total >= 0]_vars

(* The part of C27 that holds: total - |data| is kept when the id is in    *)
(* the cached list; when it is not, the total still goes down by one.      *)
C27_TotalWhenListed ==
    [][\A m \in DOMAIN mut, id \in Ids :
          DeleteMutates(m, id) =>
              /\ InList(cache, id) => Surplus(cache') = Surplus(cache)
              /\ ~InList(cache, id) => Surplus(cache') = Surplus(cache) - 1]_vars

-----------------------------------------------------------------------------
(* error-handler: the message the user sees *)

Handled == call.fn = "parseError" /\ call.done
ShowsToast == Handled /\ call.via \in {"handleApiError", "handleNetworkError"}

OneNonEmptyErrorToast ==
    /\ Len(toasts) = 1
    /\ toasts[1].severity = "error"
    /\ toasts[1].message # ""

(* C28: for every raised value parseError returns a non-empty message, and *)
(* handleApiError and handleNetworkError each show exactly one error toast *)
(* whose text is non-empty.                                                *)
C28_NonEmptyMessage ==
    /\ Handled => call.parsed.message # ""
    /\ ShowsToast => OneNonEmptyErrorToast

(* C28 for every raised value but the empty string: the message is not     *)
(* empty, and each handler shows exactly one error toast, with a text that *)
(* is not empty                                                            *)
C28_NonEmptyUnlessEmptyString ==
    /\ Handled =>
          /\ call.error # StringError("") => call.parsed.message # ""
          /\ call.error = StringError("") => call.parsed.message = ""
    /\ ShowsToast =>
          /\ Len(toasts) = 1 /\ toasts[1].severity = "error"
          /\ call.error # StringError("") => toasts[1].message # ""
          /\ (call.error = StringError("") /\ OrElse(call.customMessage, None) = None)
                => toasts[1].message = ""

C28_Witness ==
    /\ ShowsToast /\ call.via = "handleNetworkError"
    /\ call.error = StringError("plain")
    /\ toasts = <<Toast("error", "plain")>>

C28_EmptyToast ==
    /\ ShowsToast /\ call.error = StringError("")
    /\ toasts = <<Toast("error", "")>>

-----------------------------------------------------------------------------
(* The specification of the auth store *)

(* What 'auth-storage' may hold when the store is created: nothing, or a   *)
(* state an earlier run of the app has written                             *)
PersistedAuthStates ==
    {None, Some(InitialAuthState)}
        \cup {Some(AuthState(None, Some(t), FALSE)) : t \in Tokens}
        \cup {Some(AuthState(Some(u), Some(t), TRUE)) : u \in AuthUsers, t \in Tokens}

InitAuth ==
    /\ server = [id \in Ids |->
                    Some(Example(id, "A", IF id = "1" THEN "draft" ELSE "active", 0))]
    /\ cache = [k \in QueryKeys |-> NoQuery]
    /\ mut = [m \in Muts |-> IdleMutation]
    /\ toasts = <<>>
    /\ now = 0
    /\ req = IdleRequest
    /\ call = NoCall
    /\ q = NoObservedQuery
    /\ theme = MountedTheme(None, "light")
    /\ repos = NoRepository
    /\ \E persisted \in PersistedAuthStates : auth = InitialAuthStore(persisted)

NextAuth ==
    \/ \E user \in AuthUsers, token \in Tokens : setAuth(user, token)
    \/ \E token \in Tokens : setToken(token)
    \/ clearAuth
    \/ Rehydrate

SpecAuth == InitAuth /\ [][NextAuth]_vars

(* C29: isAuthenticated is true exactly when user is non-null, and implies *)
(* a non-null token; setToken changes only token and leaves user and       *)
(* isAuthenticated unchanged; clearAuth resets user, token and             *)
(* isAuthenticated to their initial values.                                *)
C29_AuthInvariant ==
    /\ auth.state.isAuthenticated <=> IsSome(auth.state.user)
    /\ auth.state.isAuthenticated => IsSome(auth.state.token)
    /\ auth.op = "setToken" =>
          /\ auth.state.user = auth.before.user
          /\ auth.state.isAuthenticated = auth.before.isAuthenticated
          /\ IsSome(auth.state.token)
    /\ auth.op = "clearAuth" => auth.state = InitialAuthState

(* setToken has replaced the token of an authenticated session *)
C29_Witness ==
    /\ auth.op = "setToken"
    /\ auth.before.isAuthenticated
    /\ auth.state.token # auth.before.token
    /\ auth.state.isAuthenticated /\ IsSome(auth.state.user)

(* clearAuth has ended an authenticated session *)
C29_Cleared ==
    /\ auth.op = "clearAuth"
    /\ auth.before.isAuthenticated
    /\ auth.state = InitialAuthState

-----------------------------------------------------------------------------
(* MockDatabaseRepository: the identity of entities *)

DbReturned(op) ==
    /\ repos.repo = "database"
    /\ repos.last.op = op /\ repos.last.outcome = "resolved"

(* C30: every create returns an id that no earlier create returned, also   *)
(* after a delete and across collections; update never changes the id of   *)
(* the stored entity, even when the patch holds another id; the entity     *)
(* create or update returns is the one a following read of that collection *)
(* and id returns.                                                         *)
C30_Identity ==
    /\ \A i, j \in DOMAIN repos.created :
            i # j => repos.created[i] # repos.created[j]
    /\ \A collection \in Collections, id \in EntityIds :
            IsSome(repos.collections[collection][id])
                => Get(repos.collections[collection][id]).id = id
    /\ DbReturned("update") => Get(repos.last.value).id = repos.asked.id
    /\ (DbReturned("create") \/ DbReturned("update")) =>
            DbGet(repos, repos.asked.collection, repos.asked.id) = repos.last.value

(* A second create after the first, and then an update whose patch held a  *)
(* forged id (the only patch that sets the title "A")                      *)
C30_Witness ==
    /\ DbReturned("update")
    /\ Len(repos.created) = MaxCreates
    /\ Get(repos.last.value).title = "A"
    /\ Get(repos.last.value).id = repos.asked.id

(* An id created after the delete of the entity created before it *)
C30_CreatedAfterDelete ==
    /\ DbReturned("create")
    /\ Len(repos.created) = 2
    /\ \A collection \in Collections :
            ~IsSome(repos.collections[collection][repos.created[1]])

====
